---- MODULE Spec2Model ----
(***************************************************************************)
(* Model of src/app.py (Escala de Acolitos): the three PostgreSQL tables   *)
(* (missas, inscricoes, acolitos) and the data-access functions that read  *)
(* and write them.  Every function opens its own connection with           *)
(* autocommit off (get_db_connection), so one call is one transaction at   *)
(* PostgreSQL's default isolation level, READ COMMITTED: each statement    *)
(* reads the rows committed when it runs, a written row stays locked (and  *)
(* invisible to the others) until the commit, and a statement that needs a *)
(* locked row waits for the lock's holder.  One action of the model is one *)
(* statement (with the Python code around it) or one commit.               *)
(***************************************************************************)
EXTENDS Integers, Sequences, FiniteSets, Bags, TLC

VARIABLES
    missas,      \* committed rows of table missas: records id, data, hora, vagas_totais
    inscricoes,  \* committed rows of table inscricoes: a bag of (missa_id, nome_acolito)
    acolitos,    \* committed rows of table acolitos: a set of names
    seq_missa,   \* next value of the SERIAL sequence of missas.id
    proc,        \* per request handler: the call in flight or the last call returned
    agora,       \* datetime.now(fuso), in minutes
    zona,        \* minutes the local zone of the process is ahead of the zone of fuso
    mon          \* observer of the last successful inscrever_acolito of a sequential run

vars == <<missas, inscricoes, acolitos, seq_missa, proc, agora, zona, mon>>

----------------------------------------------------------------------------
(* Bounds of the model *)

MaxMissas == 2      \* ids ever drawn from the sequence of missas in a sequential run
MaxMissasConc == 1  \* ids ever drawn from the sequence of missas in a concurrent run
MaxMissasObs == 1   \* ids ever drawn from the sequence of missas in an observed run
MaxCiclos == 2      \* the observer counts inscrever/desinscrever round trips up to this

Procs == {1, 2}    \* concurrent request handlers

\* Names are sequences of character codes: "A" is <<65>>, " A" is <<32, 65>>.
NomeA == <<65>>
NomeB == <<66>>
Nomes == {NomeA, NomeB}

\* vagas_totais passed to cadastrar_missa (the form offers 1 to 20)
Vagas == {1, 2}

----------------------------------------------------------------------------
(* Dates and times.  missas.data (VARCHAR(10)) and missas.hora (VARCHAR(5)) *)
(* are texts, sequences of character codes like the names: the form writes *)
(* them with strftime and obter_ranking reads them with strptime.          *)

\* characters str.strip() removes and \s of a format matches
Espacos ==
    {9, 10, 11, 12, 13, 28, 29, 30, 31, 32, 133, 160, 5760} \cup (8192..8202)
        \cup {8232, 8233, 8239, 8287, 12288}

\* zero-padded decimal numbers of strftime (years from 1000 on)
DoisDigitos(n) == <<48 + (n \div 10), 48 + (n % 10)>>
QuatroDigitos(n) ==
    <<48 + (n \div 1000), 48 + ((n \div 100) % 10), 48 + ((n \div 10) % 10), 48 + (n % 10)>>

\* data.strftime("%Y-%m-%d") of the date d = <<year, month, day>>
FormatarData(d) ==
    QuatroDigitos(d[1]) \o <<45>> \o DoisDigitos(d[2]) \o <<45>> \o DoisDigitos(d[3])

\* hora.strftime("%H:%M") of the time h = <<hour, minute>>
FormatarHora(h) == DoisDigitos(h[1]) \o <<58>> \o DoisDigitos(h[2])

\* The decimal digits of Unicode (category Nd) come in runs of ten, a zero
\* and its digits 1 to 9: these are the zeros.  \d of the regex of a format
\* matches every one of the digits and int() reads its value.
ZerosDecimais ==
    {48, 1632, 1776, 1984, 2406, 2534, 2662, 2790, 2918, 3046, 3174, 3302, 3430,
     3558, 3664, 3792, 3872, 4160, 4240, 6112, 6160, 6470, 6608, 6784, 6800, 6992,
     7088, 7232, 7248, 42528, 43216, 43264, 43472, 43504, 43600, 44016, 65296,
     66720, 68912, 69734, 69872, 69942, 70096, 70384, 70736, 70864, 71248, 71360,
     71472, 71904, 72016, 72784, 73040, 73120, 92768, 92864, 93008, 120782, 120792,
     120802, 120812, 120822, 123200, 123632, 125264, 130032}

\* c matches \d
EhDigito(c) == \E z \in ZerosDecimais : c \in z..(z + 9)

\* int() of the digit c
ValorDigito(c) == c - (CHOOSE z \in ZerosDecimais : c \in z..(z + 9))

EhNumero(s) == \A i \in 1..Len(s) : EhDigito(s[i])

\* int(s) of a text of digits
RECURSIVE Valor(_)
Valor(s) ==
    IF s = <<>> THEN 0
    ELSE 10 * Valor(SubSeq(s, 1, Len(s) - 1)) + ValorDigito(s[Len(s)])

\* the n characters of s from position i
Trecho(s, i, n) == SubSeq(s, i, i + n - 1)

\* The groups of the regex of "%Y-%m-%d %H:%M".  A class written with
\* brackets ([0-1], [1-9]) or as a character (3, 0, the space) holds ASCII
\* characters only; \d holds every decimal digit.

\* %m is 1[0-2]|0[1-9]|[1-9]
EhMes(t) ==
    \/ Len(t) = 2 /\ t[1] = 49 /\ t[2] \in 48..50
    \/ Len(t) = 2 /\ t[1] = 48 /\ t[2] \in 49..57
    \/ Len(t) = 1 /\ t[1] \in 49..57

\* %d is 3[0-1]|[1-2]\d|0[1-9]|[1-9]| [1-9]
EhDia(t) ==
    \/ Len(t) = 2 /\ t[1] = 51 /\ t[2] \in 48..49
    \/ Len(t) = 2 /\ t[1] \in 49..50 /\ EhDigito(t[2])
    \/ Len(t) = 2 /\ t[1] = 48 /\ t[2] \in 49..57
    \/ Len(t) = 1 /\ t[1] \in 49..57
    \/ Len(t) = 2 /\ t[1] = 32 /\ t[2] \in 49..57

ValorDia(t) == IF t[1] = 32 THEN ValorDigito(t[2]) ELSE Valor(t)

\* %H is 2[0-3]|[0-1]\d|\d
EhHora(t) ==
    \/ Len(t) = 2 /\ t[1] = 50 /\ t[2] \in 48..51
    \/ Len(t) = 2 /\ t[1] \in 48..49 /\ EhDigito(t[2])
    \/ Len(t) = 1 /\ EhDigito(t[1])

\* %M is [0-5]\d|\d
EhMinuto(t) ==
    \/ Len(t) = 2 /\ t[1] \in 48..53 /\ EhDigito(t[2])
    \/ Len(t) = 1 /\ EhDigito(t[1])

Bissexto(a) == a % 4 = 0 /\ (a % 100 # 0 \/ a % 400 = 0)

DiasNoMes(a, m) ==
    IF m = 2 THEN (IF Bissexto(a) THEN 29 ELSE 28)
    ELSE IF m \in {4, 6, 9, 11} THEN 30 ELSE 31

\* datetime.strptime(s, "%Y-%m-%d %H:%M"): the set with the one reading
\* <<year, month, day, hour, minute>> of s, empty when strptime raises
\* ValueError.  The regex is (\d\d\d\d)-(%m)-(%d)\s+(%H):(%M); the text
\* must match it to its end (the groups are cut at the separators, so a text
\* has at most one match that ends at its end, and the match the regex
\* prefers stops short only when no match gets there); the year is at least
\* 1 and the date must exist.
strptime(s) ==
    LET cortes == {c \in (1..2) \X (1..2) \X (1..2) \X (1..2) :
                      /\ 8 + c[1] + c[2] + c[3] + c[4] <= Len(s)
                      /\ s[5] = 45
                      /\ s[6 + c[1]] = 45
                      /\ s[Len(s) - c[4]] = 58}
        leitura(c) ==
            LET im == 6
                id == im + c[1] + 1
                ib == id + c[2]
                ih == Len(s) - c[3] - c[4]
                ii == ih + c[3] + 1
            IN  [ano |-> Trecho(s, 1, 4), mes |-> Trecho(s, im, c[1]),
                 dia |-> Trecho(s, id, c[2]), brancos |-> SubSeq(s, ib, ih - 1),
                 hora |-> Trecho(s, ih, c[3]), minuto |-> Trecho(s, ii, c[4])]
        valida(l) ==
            /\ EhNumero(l.ano) /\ Valor(l.ano) >= 1
            /\ EhMes(l.mes)
            /\ EhDia(l.dia)
            /\ ValorDia(l.dia) <= DiasNoMes(Valor(l.ano), Valor(l.mes))
            /\ \A i \in 1..Len(l.brancos) : l.brancos[i] \in Espacos
            /\ EhHora(l.hora)
            /\ EhMinuto(l.minuto)
    IN  {<<Valor(l.ano), Valor(l.mes), ValorDia(l.dia), Valor(l.hora), Valor(l.minuto)>> :
            l \in {x \in {leitura(c) : c \in cortes} : valida(x)}}

\* the day number of a date (date.toordinal: day 1 is 0001-01-01)
RECURSIVE DiasAntesDoMes(_, _)
DiasAntesDoMes(a, m) ==
    IF m = 1 THEN 0 ELSE DiasAntesDoMes(a, m - 1) + DiasNoMes(a, m - 1)

Ordinal(a, m, d) ==
    (a - 1) * 365 + ((a - 1) \div 4) - ((a - 1) \div 100) + ((a - 1) \div 400)
        + DiasAntesDoMes(a, m) + d

\* The instant now is a number of minutes of the local time of
\* America/Sao_Paulo, day number * 1440 + minute of the day; now is in 2024,
\* when the offset of the zone is UTC-3 the whole year.
SeisHoras == 6 * 60
Instante(data, hora) == data * 24 * 60 + hora

\* An instant that comes from a text is the pair <<day number, minute of the
\* day>> of its local time (the day number of 9999-12-31 times 1440 is beyond
\* the integers of the model checker).  The offset that fuso.localize gives
\* it differs from UTC-3 only for dates before 2019, by little more than an
\* hour, which does not change how it compares with an instant of 2024.

\* the naive datetime that datetime.strptime returns for a reading of strptime
Naive(l) == <<Ordinal(l[1], l[2], l[3]), l[4] * 60 + l[5]>>

\* the days of datetime.min and of datetime.max
PrimeiroDia == Ordinal(1, 1, 1)
UltimoDia == Ordinal(9999, 12, 31)

\* dt + timedelta(minutes=minutos): the set with the sum, empty when the sum
\* is before datetime.min or after datetime.max and the addition raises
\* OverflowError
Somar(dt, minutos) ==
    LET m == dt[2] + minutos
        dia == dt[1] + (m \div (24 * 60))
    IN  IF dia < PrimeiroDia \/ dia > UltimoDia THEN {} ELSE {<<dia, m % (24 * 60)>>}

\* fuso.localize(dt) of pytz: the set with dt in the zone of fuso.  It first
\* computes dt - timedelta(days=1) and dt + timedelta(days=1) to find the
\* offsets in force around dt, so it raises OverflowError (the set is empty)
\* at every time of 0001-01-01 and of 9999-12-31.
localize(dt) ==
    IF Somar(dt, -(24 * 60)) = {} \/ Somar(dt, 24 * 60) = {} THEN {} ELSE {dt}

\* dt_missa = fuso.localize(datetime.strptime(f"{data_str} {hora_str}", ...)),
\* for a reading of strptime: empty when localize raises
dt_missa(l) == localize(Naive(l))

\* the instant t of the clock as a pair
Momento(t) == <<t \div (24 * 60), t % (24 * 60)>>

\* a > b for two pairs
Depois(a, b) == a[1] > b[1] \/ (a[1] = b[1] /\ a[2] > b[2])

\* the text strptime is given for the row m of missas
dt_str(m) == m.data \o <<32>> \o m.hora

\* Every mass created in the runs of the admission ledger is on 2024-01-01 at
\* 10:00, with the texts strftime writes for that date and time, and now is
\* either 09:00 of that day or 10:00 of the next day (more than 6 hours after
\* the mass).
DataMissa == FormatarData(<<2024, 1, 1>>)
HoraMissa == FormatarHora(<<10, 0>>)
AgendaDoDia == {<<DataMissa, HoraMissa>>}
AgoraAntes == Instante(Ordinal(2024, 1, 1), 9 * 60)
AgoraDepois == Instante(Ordinal(2024, 1, 2), 10 * 60)

\* The process runs in the zone of fuso or in UTC, which is three hours
\* ahead of it (the code sets no zone, the machine does).
Zonas == {0, 180}

\* the date <<year, month, day>> of a day number (date.fromordinal)
DataDoOrdinal(o) ==
    LET n == o - 1
        n400 == n \div 146097
        r400 == n % 146097
        n100 == r400 \div 36524
        r100 == r400 % 36524
        n4 == r100 \div 1461
        r4 == r100 % 1461
        n1 == r4 \div 365
        r1 == r4 % 365
        ano == n400 * 400 + n100 * 100 + n4 * 4 + n1 + 1
    IN  IF n1 = 4 \/ n100 = 4 THEN <<ano - 1, 12, 31>>
        ELSE LET mes == CHOOSE m \in 1..12 :
                           /\ DiasAntesDoMes(ano, m) <= r1
                           /\ r1 < DiasAntesDoMes(ano, m) + DiasNoMes(ano, m)
             IN  <<ano, mes, r1 - DiasAntesDoMes(ano, mes) + 1>>

\* hoje = date.today().strftime("%Y-%m-%d"): the date of now in the local
\* zone of the process, which is zona minutes ahead of the zone of fuso
Hoje == FormatarData(DataDoOrdinal((agora + zona) \div (24 * 60)))

\* the set with the value of `dt_missa + timedelta(hours=6)` for the row m,
\* empty when the try block raises before the test: strptime raises
\* ValueError, localize or the addition OverflowError
prazo(m) ==
    UNION {Somar(x, SeisHoras) : x \in UNION {dt_missa(l) : l \in strptime(dt_str(m))}}

\* (variant: `>=` for `>`)
MissaRealizada_inclusive(m) ==
    \E x \in prazo(m) : ~Depois(x, Momento(agora))

\* (variant: a mass whose try block raises counts as held)
MissaRealizada_sem_except(m) ==
    \/ prazo(m) = {}
    \/ \E x \in prazo(m) : Depois(Momento(agora), x)

\* `if agora > (dt_missa + timedelta(hours=6))`, False when the try block
\* raises (`except: continue`)
MissaRealizada(m) ==
    \E x \in prazo(m) : Depois(Momento(agora), x)

----------------------------------------------------------------------------
(* The tables *)

Linha(e, n) == [missa_id |-> e, nome_acolito |-> n]

MissaIds == {m.id : m \in missas}

MissaDe(e) == CHOOSE m \in missas : m.id = e

\* SELECT COUNT(i.id) ... WHERE m.id = e: the committed rows of inscricoes of e
InscricoesDe(e) ==
    [r \in {x \in DOMAIN inscricoes : x.missa_id = e} |-> inscricoes[r]]

VagasPreenchidas(e) == BagCardinality(InscricoesDe(e))

\* SELECT COUNT(*) FROM inscricoes WHERE missa_id = e AND nome_acolito = n
ContarInscricao(e, n) == CopiesIn(Linha(e, n), inscricoes)

\* the table without every row that is in the set S of (missa_id, nome_acolito)
RemoverLinhas(tabela, S) == [r \in DOMAIN tabela \ S |-> tabela[r]]

----------------------------------------------------------------------------
(* Calls and their transactions *)

Ocioso ==
    [op |-> "idle", missa_id |-> 0, nome |-> <<>>, pc |-> "idle",
     ret |-> FALSE, conn |-> TRUE, del |-> {}, nova |-> {}, apagada |-> {},
     falta |-> {}]

\* a call in flight: its connection is open, it stands before the step pc
EmCurso(o, e, n, passo) ==
    [op |-> o, missa_id |-> e, nome |-> n, pc |-> passo,
     ret |-> FALSE, conn |-> TRUE, del |-> {}, nova |-> {}, apagada |-> {},
     falta |-> {}]
\* (the record of a cadastrar_missa in flight keeps in nova the row it
\* inserted, that of an excluir_missa in apagada the row of missas its DELETE
\* found and deleted, if it found one, in del the rows of inscricoes it has
\* deleted so far and in falta the rows the DELETE in progress has still to
\* reach)

\* a call that has returned r; c is FALSE when get_db_connection gave None
Retornou(o, e, n, r, c) ==
    [op |-> o, missa_id |-> e, nome |-> n, pc |-> "done",
     ret |-> r, conn |-> c, del |-> {}, nova |-> {}, apagada |-> {},
     falta |-> {}]
\* (the record of a returned excluir_missa keeps in del the rows it deleted)

\* the handler of p is between two calls
Livre(p) == proc[p].pc = "idle"

\* the caller has the result of the call: the handler ends (st.rerun or the
\* end of the script run) and is free for the next call
retornar(p) ==
    /\ proc[p].pc = "done"
    /\ proc' = [proc EXCEPT ![p] = Ocioso]
    /\ UNCHANGED <<missas, inscricoes, acolitos, seq_missa, agora, zona>>

\* the row an uncommitted INSERT INTO inscricoes of q has written
InsercaoPendente(q) ==
    IF proc[q].op = "inscrever_acolito" /\ proc[q].pc = "commit"
    THEN {Linha(proc[q].missa_id, proc[q].nome)}
    ELSE {}

\* (variant: the row locks outlive the call, until the handler ends)
LinhasBloqueadas_sem_liberar(q) == proc[q].del

\* rows of inscricoes deleted by q and not committed: q holds their row locks
LinhasBloqueadas(q) == IF proc[q].pc = "done" THEN {} ELSE proc[q].del

\* q has deleted the row of missas e and not committed: it holds the row's
\* lock.  A DELETE that found no row holds no lock.
MissaBloqueada(q, e) ==
    /\ proc[q].op = "excluir_missa"
    /\ proc[q].pc # "done"
    /\ \E m \in proc[q].apagada : m.id = e

\* the foreign key check of q's uncommitted INSERT holds FOR KEY SHARE on missas e
MissaReferida(q, e) == Linha(e, proc[q].nome) \in InsercaoPendente(q)

\* the observer before any successful inscrever_acolito
SemObservacao ==
    [fase |-> "nenhuma", missa_id |-> 0, nome |-> <<>>, antes |-> EmptyBag,
     limpo |-> FALSE, ciclos |-> 0]

Outros(p) == Procs \ {p}

\* The records of the calls after p has committed the removal of the rows S
\* of inscricoes and become c: a DELETE of another transaction that had one
\* of these rows still to reach finds it gone and passes over it.
AoConfirmar(p, c, S) ==
    [q \in Procs |-> IF q = p THEN c ELSE [proc[q] EXCEPT !.falta = @ \ S]]

TabelasInalteradas == UNCHANGED <<missas, inscricoes, acolitos, seq_missa>>

----------------------------------------------------------------------------
(* Initial state: criar_tabelas has created the three empty tables *)

Init ==
    /\ missas = {}
    /\ inscricoes = EmptyBag
    /\ acolitos = {}
    /\ seq_missa = 1
    /\ proc = [p \in Procs |-> Ocioso]
    /\ agora \in {AgoraAntes, AgoraDepois}
    /\ zona \in Zonas
    /\ mon = SemObservacao

----------------------------------------------------------------------------
(* cadastrar_missa: INSERT, commit.  The INSERT draws the id of the row   *)
(* from the sequence of missas.id, which no rollback gives back; the row   *)
(* is invisible to the other transactions until the commit.                *)

\* What a column VARCHAR(n) stores for the text t: the set with t, or with
\* the first n characters of t when the characters after them are all spaces;
\* empty when the INSERT fails (value too long for type character varying).
varchar(t, n) ==
    IF Len(t) <= n THEN {t}
    ELSE IF \A i \in (n + 1)..Len(t) : t[i] = 32 THEN {SubSeq(t, 1, n)}
    ELSE {}

\* get_db_connection, then INSERT INTO missas (data, hora, descricao,
\* vagas_totais); psycopg2.Error (the text is too long, or the store fails:
\* erro) is caught: rollback, return False
cadastrar_missa_insert(p, data, hora, vagas_totais, ok, erro) ==
    LET linhas == {[id |-> seq_missa, data |-> d, hora |-> h, vagas_totais |-> vagas_totais] :
                      d \in varchar(data, 10), h \in varchar(hora, 5)}
        feito == ok /\ ~erro /\ linhas # {}
    IN  /\ Livre(p)
        /\ proc' = [proc EXCEPT ![p] =
              IF ~ok THEN Retornou("cadastrar_missa", 0, <<>>, FALSE, FALSE)
              ELSE IF ~feito THEN Retornou("cadastrar_missa", 0, <<>>, FALSE, TRUE)
              ELSE [EmCurso("cadastrar_missa", seq_missa, <<>>, "commit") EXCEPT !.nova = linhas]]
        /\ seq_missa' = IF feito THEN seq_missa + 1 ELSE seq_missa
        /\ UNCHANGED <<missas, inscricoes, acolitos, agora, zona>>

\* conn.commit(); return True
cadastrar_missa_commit(p) ==
    /\ proc[p].op = "cadastrar_missa"
    /\ proc[p].pc = "commit"
    /\ missas' = missas \cup proc[p].nova
    /\ proc' = [proc EXCEPT ![p] = Retornou("cadastrar_missa", 0, <<>>, TRUE, TRUE)]
    /\ UNCHANGED <<inscricoes, acolitos, seq_missa, agora, zona>>

\* cadastrar_missa with the texts of agendas, while fewer than `limite` ids
\* have been drawn from the sequence
cadastrar_missa(p, limite, agendas, vagas, conns, erros) ==
    \/ /\ seq_missa <= limite
       /\ \E a \in agendas, v \in vagas, ok \in conns, erro \in erros :
             cadastrar_missa_insert(p, a[1], a[2], v, ok, erro)
    \/ cadastrar_missa_commit(p)

----------------------------------------------------------------------------
(* inscrever_acolito: SELECT of the counts, SELECT of the duplicate,       *)
(* INSERT, commit.                                                         *)

\* (variant: `>` for `>=`)
SemVaga_estrito(e) == VagasPreenchidas(e) > MissaDe(e).vagas_totais

\* (variant: the count is not compared with vagas_totais)
SemVaga_ausente(e) == FALSE

\* (variant: the seats of a mass already held are not counted)
SemVaga_so_futuras(e) ==
    /\ ~MissaRealizada(MissaDe(e))
    /\ VagasPreenchidas(e) >= MissaDe(e).vagas_totais

\* `if vagas_preenchidas >= vagas_totais: return False`
SemVaga(e) == VagasPreenchidas(e) >= MissaDe(e).vagas_totais

\* `if cursor.fetchone()[0] > 0: return False`
JaInscrito(e, n) == ContarInscricao(e, n) > 0

\* (variant: the table has no UNIQUE constraint)
ViolaUnique_sem_constraint(e, n) == FALSE

\* UNIQUE(missa_id, nome_acolito): a committed row with the same pair exists
ViolaUnique(e, n) == ContarInscricao(e, n) > 0

\* (variant: the table has no FOREIGN KEY constraint)
ViolaChaveEstrangeira_sem_constraint(e) == FALSE

\* FOREIGN KEY (missa_id) REFERENCES missas(id): no committed row of missas has the id
ViolaChaveEstrangeira(e) == e \notin MissaIds

\* The unique index makes the INSERT wait while another transaction holds an
\* uncommitted row with the same pair, inserted or deleted.
EsperaUnique(p, e, n) ==
    \E q \in Outros(p) : Linha(e, n) \in InsercaoPendente(q) \cup LinhasBloqueadas(q)

\* The foreign key check locks the row of missas FOR KEY SHARE: it waits while
\* another transaction has deleted that row and not committed.
EsperaChaveEstrangeira(p, e) == \E q \in Outros(p) : MissaBloqueada(q, e)

\* get_db_connection, then the SELECT of vagas_totais and COUNT(i.id)
inscrever_acolito_vagas(p, e, n, ok) ==
    /\ Livre(p)
    /\ proc' = [proc EXCEPT ![p] =
          IF ~ok THEN Retornou("inscrever_acolito", e, n, FALSE, FALSE)
          ELSE IF e \notin MissaIds THEN Retornou("inscrever_acolito", e, n, FALSE, TRUE)
          ELSE IF SemVaga(e) THEN Retornou("inscrever_acolito", e, n, FALSE, TRUE)
          ELSE EmCurso("inscrever_acolito", e, n, "duplicata")]
    /\ TabelasInalteradas
    /\ UNCHANGED <<agora, zona>>

\* (variant: an acolito already enrolled gets True)
inscrever_acolito_duplicata_idempotente(p) ==
    /\ proc[p].op = "inscrever_acolito"
    /\ proc[p].pc = "duplicata"
    /\ proc' = [proc EXCEPT ![p] =
          IF JaInscrito(proc[p].missa_id, proc[p].nome)
          THEN Retornou("inscrever_acolito", proc[p].missa_id, proc[p].nome, TRUE, TRUE)
          ELSE EmCurso("inscrever_acolito", proc[p].missa_id, proc[p].nome, "insert")]
    /\ TabelasInalteradas
    /\ UNCHANGED <<agora, zona>>

\* the SELECT COUNT(*) of the pair
inscrever_acolito_duplicata(p) ==
    /\ proc[p].op = "inscrever_acolito"
    /\ proc[p].pc = "duplicata"
    /\ proc' = [proc EXCEPT ![p] =
          IF JaInscrito(proc[p].missa_id, proc[p].nome)
          THEN Retornou("inscrever_acolito", proc[p].missa_id, proc[p].nome, FALSE, TRUE)
          ELSE EmCurso("inscrever_acolito", proc[p].missa_id, proc[p].nome, "insert")]
    /\ TabelasInalteradas
    /\ UNCHANGED <<agora, zona>>

\* the INSERT; psycopg2.IntegrityError (unique or foreign key violation) is
\* caught: rollback, return False
inscrever_acolito_insert(p) ==
    LET e == proc[p].missa_id
        n == proc[p].nome
    IN  /\ proc[p].op = "inscrever_acolito"
        /\ proc[p].pc = "insert"
        /\ ~EsperaUnique(p, e, n)
        /\ ViolaUnique(e, n) \/ ~EsperaChaveEstrangeira(p, e)
        /\ proc' = [proc EXCEPT ![p] =
              IF ViolaUnique(e, n) \/ ViolaChaveEstrangeira(e)
              THEN Retornou("inscrever_acolito", e, n, FALSE, TRUE)
              ELSE EmCurso("inscrever_acolito", e, n, "commit")]
        /\ TabelasInalteradas
        /\ UNCHANGED <<agora, zona>>

\* conn.commit(); return True
inscrever_acolito_commit(p) ==
    /\ proc[p].op = "inscrever_acolito"
    /\ proc[p].pc = "commit"
    /\ inscricoes' = inscricoes (+) SetToBag({Linha(proc[p].missa_id, proc[p].nome)})
    /\ proc' = [proc EXCEPT ![p] =
          Retornou("inscrever_acolito", proc[p].missa_id, proc[p].nome, TRUE, TRUE)]
    /\ UNCHANGED <<missas, acolitos, seq_missa, agora, zona>>

inscrever_acolito(p, ids, nomes, conns) ==
    \/ \E e \in ids, n \in nomes, ok \in conns : inscrever_acolito_vagas(p, e, n, ok)
    \/ inscrever_acolito_duplicata(p)
    \/ inscrever_acolito_insert(p)
    \/ inscrever_acolito_commit(p)

----------------------------------------------------------------------------
(* desinscrever_acolito: DELETE of the pair, commit *)

\* (variant: the DELETE has no `AND nome_acolito = %s`)
desinscrever_acolito_delete_missa_toda(p, e, n, ok) ==
    /\ Livre(p)
    /\ ok => \A q \in Outros(p) : LinhasBloqueadas(q) \cap DOMAIN InscricoesDe(e) = {}
    /\ proc' = [proc EXCEPT ![p] =
          IF ~ok THEN Retornou("desinscrever_acolito", e, n, FALSE, FALSE)
          ELSE [EmCurso("desinscrever_acolito", e, n, "commit") EXCEPT
                   !.ret = VagasPreenchidas(e) > 0,
                   !.del = DOMAIN InscricoesDe(e)]]
    /\ TabelasInalteradas
    /\ UNCHANGED <<agora, zona>>

\* (variant: the DELETE spares the masses that are over)
desinscrever_acolito_delete_so_futuras(p, e, n, ok) ==
    LET alvo == IF e \in MissaIds /\ MissaRealizada(MissaDe(e))
                THEN {}
                ELSE {Linha(e, n)} \cap DOMAIN inscricoes
    IN  /\ Livre(p)
        /\ ok => \A q \in Outros(p) : Linha(e, n) \notin LinhasBloqueadas(q)
        /\ proc' = [proc EXCEPT ![p] =
              IF ~ok THEN Retornou("desinscrever_acolito", e, n, FALSE, FALSE)
              ELSE [EmCurso("desinscrever_acolito", e, n, "commit") EXCEPT
                       !.ret = alvo # {},
                       !.del = alvo]]
        /\ TabelasInalteradas
        /\ UNCHANGED <<agora, zona>>

\* get_db_connection, then the DELETE; it waits for the lock of a row another
\* transaction has deleted and not committed.  sucesso = cursor.rowcount > 0
desinscrever_acolito_delete(p, e, n, ok) ==
    /\ Livre(p)
    /\ ok => \A q \in Outros(p) : Linha(e, n) \notin LinhasBloqueadas(q)
    /\ proc' = [proc EXCEPT ![p] =
          IF ~ok THEN Retornou("desinscrever_acolito", e, n, FALSE, FALSE)
          ELSE [EmCurso("desinscrever_acolito", e, n, "commit") EXCEPT
                   !.ret = ContarInscricao(e, n) > 0,
                   !.del = {Linha(e, n)} \cap DOMAIN inscricoes]]
    /\ TabelasInalteradas
    /\ UNCHANGED <<agora, zona>>

\* conn.commit(); return sucesso
desinscrever_acolito_commit(p) ==
    /\ proc[p].op = "desinscrever_acolito"
    /\ proc[p].pc = "commit"
    /\ inscricoes' = RemoverLinhas(inscricoes, proc[p].del)
    /\ proc' = AoConfirmar(p,
          Retornou("desinscrever_acolito", proc[p].missa_id, proc[p].nome, proc[p].ret, TRUE),
          proc[p].del)
    /\ UNCHANGED <<missas, acolitos, seq_missa, agora, zona>>

desinscrever_acolito(p, ids, conns) ==
    \/ \E e \in ids, n \in Nomes, ok \in conns : desinscrever_acolito_delete(p, e, n, ok)
    \/ desinscrever_acolito_commit(p)

----------------------------------------------------------------------------
(* remover_inscricao_admin: DELETE of the pair, commit *)

remover_inscricao_admin_delete(p, e, n, ok) ==
    /\ Livre(p)
    /\ ok => \A q \in Outros(p) : Linha(e, n) \notin LinhasBloqueadas(q)
    /\ proc' = [proc EXCEPT ![p] =
          IF ~ok THEN Retornou("remover_inscricao_admin", e, n, FALSE, FALSE)
          ELSE [EmCurso("remover_inscricao_admin", e, n, "commit") EXCEPT
                   !.ret = ContarInscricao(e, n) > 0,
                   !.del = {Linha(e, n)} \cap DOMAIN inscricoes]]
    /\ TabelasInalteradas
    /\ UNCHANGED <<agora, zona>>

remover_inscricao_admin_commit(p) ==
    /\ proc[p].op = "remover_inscricao_admin"
    /\ proc[p].pc = "commit"
    /\ inscricoes' = RemoverLinhas(inscricoes, proc[p].del)
    /\ proc' = AoConfirmar(p,
          Retornou("remover_inscricao_admin", proc[p].missa_id, proc[p].nome, proc[p].ret, TRUE),
          proc[p].del)
    /\ UNCHANGED <<missas, acolitos, seq_missa, agora, zona>>

remover_inscricao_admin(p, ids, conns) ==
    \/ \E e \in ids, n \in Nomes, ok \in conns : remover_inscricao_admin_delete(p, e, n, ok)
    \/ remover_inscricao_admin_commit(p)

----------------------------------------------------------------------------
(* excluir_missa: DELETE of the inscricoes, DELETE of the missa, commit.   *)
(* A DELETE takes the lock of each row as it reaches it; at a row another  *)
(* transaction has deleted and not committed it waits, keeping the locks   *)
(* it has taken, and passes over the row if that transaction commits.  The *)
(* order in which it reaches the rows is the store's choice.               *)

\* the rows of inscricoes locked by the transactions of the other handlers
LinhasDeOutros(p) == UNION {LinhasBloqueadas(q) : q \in Outros(p)}

\* One stretch of a DELETE of p that has the rows F of inscricoes still to
\* reach: the pairs <<T, R>> of the rows it takes and the rows it is left
\* with.  With no row of F locked by another transaction it takes them all;
\* otherwise it takes some of the free rows and goes on or waits at a locked
\* one.
Varrer(p, F) ==
    LET vivas == F \cap DOMAIN inscricoes
        presas == vivas \cap LinhasDeOutros(p)
        livres == vivas \ presas
    IN  IF presas = {} THEN {<<livres, {}>>}
        ELSE {<<T, vivas \ T>> : T \in SUBSET livres}

\* (variant: the connection commits every statement as it runs)
excluir_missa_inscricoes_autocommit(p, e, ok) ==
    /\ Livre(p)
    /\ ok => LinhasDeOutros(p) \cap DOMAIN InscricoesDe(e) = {}
    /\ proc' = [proc EXCEPT ![p] =
          IF ~ok THEN Retornou("excluir_missa", e, <<>>, FALSE, FALSE)
          ELSE EmCurso("excluir_missa", e, <<>>, "missa")]
    /\ inscricoes' = IF ok THEN RemoverLinhas(inscricoes, DOMAIN InscricoesDe(e)) ELSE inscricoes
    /\ UNCHANGED <<missas, acolitos, seq_missa, agora, zona>>

\* get_db_connection, then DELETE FROM inscricoes WHERE missa_id = e, over
\* the rows committed when it starts: the statement ends (pc "missa") or
\* stands at a locked row (pc "inscricoes")
excluir_missa_inscricoes(p, e, ok) ==
    /\ Livre(p)
    /\ \E v \in (IF ok THEN Varrer(p, DOMAIN InscricoesDe(e)) ELSE {<<{}, {}>>}) :
          proc' = [proc EXCEPT ![p] =
             IF ~ok THEN Retornou("excluir_missa", e, <<>>, FALSE, FALSE)
             ELSE [EmCurso("excluir_missa", e, <<>>,
                           IF v[2] = {} THEN "missa" ELSE "inscricoes") EXCEPT
                      !.del = v[1],
                      !.falta = v[2]]]
    /\ TabelasInalteradas
    /\ UNCHANGED <<agora, zona>>

\* DELETE FROM missas WHERE id = e when it reaches the row of e: the records
\* of the call after it.  It deletes the row committed by now, and none when
\* there is none (a row committed later stays).  It waits (pc "missa_espera")
\* while an uncommitted INSERT references the row (FOR KEY SHARE) or another
\* transaction has deleted it.  Once it holds the row, ON DELETE CASCADE
\* deletes the rows of inscricoes of e committed by now, as a DELETE does:
\* the statement ends (pc "commit") or stands at a locked row (pc "cascata").
ApagarMissa(p) ==
    LET e == proc[p].missa_id
        alvo == {m \in missas : m.id = e}
        retida == \E q \in Outros(p) : MissaBloqueada(q, e) \/ MissaReferida(q, e)
        em(passo) == [EmCurso("excluir_missa", e, <<>>, passo) EXCEPT !.del = proc[p].del]
    IN  IF alvo = {} THEN {em("commit")}
        ELSE IF retida THEN {em("missa_espera")}
        ELSE {[em(IF v[2] = {} THEN "commit" ELSE "cascata") EXCEPT
                  !.del = proc[p].del \cup v[1],
                  !.falta = v[2],
                  !.apagada = alvo] :
                 v \in Varrer(p, DOMAIN InscricoesDe(e) \ proc[p].del)}

\* the handler sends DELETE FROM missas WHERE id = e
excluir_missa_missa(p) ==
    /\ proc[p].op = "excluir_missa"
    /\ proc[p].pc = "missa"
    /\ \E c \in ApagarMissa(p) : proc' = [proc EXCEPT ![p] = c]
    /\ TabelasInalteradas
    /\ UNCHANGED <<agora, zona>>

\* conn.commit(); return True (the number of rows deleted is not looked at)
excluir_missa_commit(p) ==
    /\ proc[p].op = "excluir_missa"
    /\ proc[p].pc = "commit"
    /\ missas' = missas \ proc[p].apagada
    /\ inscricoes' = RemoverLinhas(inscricoes, proc[p].del)
    /\ proc' = AoConfirmar(p,
          [Retornou("excluir_missa", proc[p].missa_id, <<>>, TRUE, TRUE) EXCEPT
              !.del = proc[p].del],
          proc[p].del)
    /\ UNCHANGED <<acolitos, seq_missa, agora, zona>>

\* the statements and the commit of a call that never has to wait
excluir_missa(p, ids, conns) ==
    \/ \E e \in ids, ok \in conns : excluir_missa_inscricoes(p, e, ok)
    \/ excluir_missa_missa(p)
    \/ excluir_missa_commit(p)

\* a DELETE of p that stands at a locked row goes on: it takes rows that are
\* free, or the lock it waited for has been released
excluir_missa_retomar(p) ==
    /\ proc[p].op = "excluir_missa"
    /\ \/ /\ proc[p].pc \in {"inscricoes", "cascata"}
          /\ \E v \in Varrer(p, proc[p].falta) :
                /\ v[2] = {} \/ v[2] # proc[p].falta
                /\ proc' = [proc EXCEPT ![p] =
                      [proc[p] EXCEPT
                          !.del = @ \cup v[1],
                          !.falta = v[2],
                          !.pc = IF v[2] # {} THEN @
                                 ELSE IF @ = "inscricoes" THEN "missa" ELSE "commit"]]
       \/ /\ proc[p].pc = "missa_espera"
          /\ \E c \in ApagarMissa(p) :
                /\ c.pc # "missa_espera"
                /\ proc' = [proc EXCEPT ![p] = c]
    /\ TabelasInalteradas
    /\ UNCHANGED <<agora, zona>>

\* the DELETE in progress of p may be waiting for a lock of q: a row it has
\* still to reach is locked by q, or q holds the row of missas it needs
Espera(p, q) ==
    /\ q # p
    /\ proc[p].op = "excluir_missa"
    /\ \/ /\ proc[p].pc \in {"inscricoes", "cascata"}
          /\ proc[p].falta \cap LinhasBloqueadas(q) # {}
       \/ /\ proc[p].pc = "missa_espera"
          /\ MissaBloqueada(q, proc[p].missa_id) \/ MissaReferida(q, proc[p].missa_id)

\* the handlers that those of S wait for, directly or through n others
RECURSIVE Alcanca(_, _)
Alcanca(S, n) ==
    IF n = 0 THEN S
    ELSE Alcanca(S \cup {q \in Procs : \E r \in S : Espera(r, q)}, n - 1)

\* p is in a cycle of transactions that wait for each other
EmImpasse(p) == p \in Alcanca({q \in Procs : Espera(p, q)}, Cardinality(Procs))

\* The store finds the cycle and aborts the statement of one transaction of
\* it (deadlock detected): psycopg2.Error is caught, `conn.rollback();
\* return False`.
impasse(p) ==
    /\ EmImpasse(p)
    /\ proc' = [proc EXCEPT ![p] =
          Retornou("excluir_missa", proc[p].missa_id, <<>>, FALSE, TRUE)]
    /\ TabelasInalteradas
    /\ UNCHANGED <<agora, zona>>

----------------------------------------------------------------------------
(* A call that writes and is cut short before its commit or at it: a       *)
(* statement or the commit raises psycopg2.Error (the store fails or       *)
(* cancels the statement at a timeout) and the handler runs                *)
(* `conn.rollback(); return False`, or the request ends and the connection *)
(* is closed with its transaction open, which the store rolls back.  The   *)
(* seven functions that write (cadastrar_missa, inscrever_acolito,         *)
(* desinscrever_acolito, excluir_missa, remover_inscricao_admin,           *)
(* cadastrar_acolito, remover_acolito) have the same handler, and only     *)
(* they have calls in flight.  An id drawn from the sequence is not given  *)
(* back.                                                                   *)

abortar(p) ==
    /\ proc[p].pc \notin {"idle", "done"}
    /\ proc' = [proc EXCEPT ![p] =
          Retornou(proc[p].op, proc[p].missa_id, proc[p].nome, FALSE, TRUE)]
    /\ TabelasInalteradas
    /\ UNCHANGED <<agora, zona>>

----------------------------------------------------------------------------
(* listar_inscritos: SELECT nome_acolito ... ORDER BY nome_acolito *)

\* a <= b in the order of strings, character code by character code
RECURSIVE NomeMenorIgual(_, _)
NomeMenorIgual(a, b) ==
    IF a = <<>> THEN TRUE
    ELSE IF b = <<>> THEN FALSE
    ELSE IF Head(a) # Head(b) THEN Head(a) < Head(b)
    ELSE NomeMenorIgual(Tail(a), Tail(b))

\* the names of the committed rows of e, one copy per row
NomesDe(e) ==
    [n \in {r.nome_acolito : r \in DOMAIN InscricoesDe(e)} |-> inscricoes[Linha(e, n)]]

RECURSIVE OrdenarNomes(_)
OrdenarNomes(b) ==
    IF DOMAIN b = {} THEN <<>>
    ELSE LET m == CHOOSE x \in DOMAIN b : \A y \in DOMAIN b : NomeMenorIgual(x, y)
         IN  [i \in 1..b[m] |-> m] \o OrdenarNomes([n \in DOMAIN b \ {m} |-> b[n]])

\* `return [row[0] for row in resultados]`; [] when there is no connection
listar_inscritos(e, ok) == IF ok THEN OrdenarNomes(NomesDe(e)) ELSE <<>>

----------------------------------------------------------------------------
(* cadastrar_acolito and remover_acolito *)

RECURSIVE TirarEsquerda(_)
TirarEsquerda(s) ==
    IF s # <<>> /\ Head(s) \in Espacos THEN TirarEsquerda(Tail(s)) ELSE s

RECURSIVE TirarDireita(_)
TirarDireita(s) ==
    IF s # <<>> /\ s[Len(s)] \in Espacos THEN TirarDireita(SubSeq(s, 1, Len(s) - 1)) ELSE s

\* nome.strip()
Strip(s) == TirarDireita(TirarEsquerda(s))

\* the name an uncommitted INSERT INTO acolitos of q has written
AcolitoPendente(q) ==
    IF proc[q].op = "cadastrar_acolito" /\ proc[q].pc = "commit"
    THEN {Strip(proc[q].nome)}
    ELSE {}

\* the name an uncommitted DELETE FROM acolitos of q has removed
AcolitoBloqueado(q) ==
    IF proc[q].op = "remover_acolito" /\ proc[q].pc = "commit" /\ proc[q].ret
    THEN {proc[q].nome}
    ELSE {}

\* (variant: the table has no primary key, the INSERT neither waits nor fails)
cadastrar_acolito_insert_sem_chave(p, nome, ok) ==
    /\ Livre(p)
    /\ proc' = [proc EXCEPT ![p] =
          IF ~ok THEN Retornou("cadastrar_acolito", 0, nome, FALSE, FALSE)
          ELSE EmCurso("cadastrar_acolito", 0, nome, "commit")]
    /\ TabelasInalteradas
    /\ UNCHANGED <<agora, zona>>

\* get_db_connection, then INSERT INTO acolitos (nome) VALUES (nome.strip());
\* psycopg2.IntegrityError (the primary key) is caught: return False
cadastrar_acolito_insert(p, nome, ok) ==
    /\ Livre(p)
    /\ ok => \A q \in Outros(p) : Strip(nome) \notin AcolitoPendente(q) \cup AcolitoBloqueado(q)
    /\ proc' = [proc EXCEPT ![p] =
          IF ~ok THEN Retornou("cadastrar_acolito", 0, nome, FALSE, FALSE)
          ELSE IF Strip(nome) \in acolitos THEN Retornou("cadastrar_acolito", 0, nome, FALSE, TRUE)
          ELSE EmCurso("cadastrar_acolito", 0, nome, "commit")]
    /\ TabelasInalteradas
    /\ UNCHANGED <<agora, zona>>

\* (variant: the name is stored as it was typed)
cadastrar_acolito_commit_sem_strip(p) ==
    /\ proc[p].op = "cadastrar_acolito"
    /\ proc[p].pc = "commit"
    /\ acolitos' = acolitos \cup {proc[p].nome}
    /\ proc' = [proc EXCEPT ![p] = Retornou("cadastrar_acolito", 0, proc[p].nome, TRUE, TRUE)]
    /\ UNCHANGED <<missas, inscricoes, seq_missa, agora, zona>>

\* conn.commit(); return True
cadastrar_acolito_commit(p) ==
    /\ proc[p].op = "cadastrar_acolito"
    /\ proc[p].pc = "commit"
    /\ acolitos' = acolitos \cup {Strip(proc[p].nome)}
    /\ proc' = [proc EXCEPT ![p] = Retornou("cadastrar_acolito", 0, proc[p].nome, TRUE, TRUE)]
    /\ UNCHANGED <<missas, inscricoes, seq_missa, agora, zona>>

cadastrar_acolito(p, nomes, conns) ==
    \/ \E nome \in nomes, ok \in conns : cadastrar_acolito_insert(p, nome, ok)
    \/ cadastrar_acolito_commit(p)

\* get_db_connection, then DELETE FROM acolitos WHERE nome = nome
remover_acolito_delete(p, nome, ok) ==
    /\ Livre(p)
    /\ ok => \A q \in Outros(p) : nome \notin AcolitoBloqueado(q)
    /\ proc' = [proc EXCEPT ![p] =
          IF ~ok THEN Retornou("remover_acolito", 0, nome, FALSE, FALSE)
          ELSE [EmCurso("remover_acolito", 0, nome, "commit") EXCEPT !.ret = nome \in acolitos]]
    /\ TabelasInalteradas
    /\ UNCHANGED <<agora, zona>>

\* (variant: the inscricoes of the name are deleted with it)
remover_acolito_commit_em_cascata(p) ==
    /\ proc[p].op = "remover_acolito"
    /\ proc[p].pc = "commit"
    /\ acolitos' = IF proc[p].ret THEN acolitos \ {proc[p].nome} ELSE acolitos
    /\ inscricoes' = RemoverLinhas(inscricoes,
                        {r \in DOMAIN inscricoes : r.nome_acolito = proc[p].nome})
    /\ proc' = [proc EXCEPT ![p] = Retornou("remover_acolito", 0, proc[p].nome, proc[p].ret, TRUE)]
    /\ UNCHANGED <<missas, seq_missa, agora, zona>>

\* conn.commit(); return sucesso
remover_acolito_commit(p) ==
    /\ proc[p].op = "remover_acolito"
    /\ proc[p].pc = "commit"
    /\ acolitos' = IF proc[p].ret THEN acolitos \ {proc[p].nome} ELSE acolitos
    /\ proc' = [proc EXCEPT ![p] = Retornou("remover_acolito", 0, proc[p].nome, proc[p].ret, TRUE)]
    /\ UNCHANGED <<missas, inscricoes, seq_missa, agora, zona>>

remover_acolito(p, nomes, conns) ==
    \/ \E nome \in nomes, ok \in conns : remover_acolito_delete(p, nome, ok)
    \/ remover_acolito_commit(p)

----------------------------------------------------------------------------
(* obter_ranking *)

\* the rows of `SELECT i.nome_acolito, m.data, m.hora FROM inscricoes i JOIN
\* missas m ON i.missa_id = m.id`, each with the row of inscricoes it comes from
LinhasDoRanking ==
    UNION {{[missa_id |-> r.missa_id, copia |-> k, nome |-> r.nome_acolito,
             data |-> MissaDe(r.missa_id).data, hora |-> MissaDe(r.missa_id).hora] :
               k \in 1..inscricoes[r]} :
           r \in {x \in DOMAIN inscricoes : x.missa_id \in MissaIds}}

\* cur.fetchall(): the SELECT has no ORDER BY, so the rows come in the order
\* the store chooses, which can be any
RECURSIVE VarredurasDe(_)
VarredurasDe(linhas) ==
    IF linhas = {} THEN {<<>>}
    ELSE UNION {{<<x>> \o d : d \in VarredurasDe(linhas \ {x})} : x \in linhas}

Varreduras == VarredurasDe(LinhasDoRanking)

\* (variant: the points of a name already in the dict are not added up)
Pontuar_sem_soma(pontuacao, nome) ==
    IF \E j \in DOMAIN pontuacao : pontuacao[j][1] = nome
    THEN pontuacao
    ELSE Append(pontuacao, <<nome, 1>>)

\* pontuacao[nome] = pontuacao.get(nome, 0) + 1: the dict keeps its keys in
\* the order of their first insertion; it is a sequence of <<nome, pontos>>
Pontuar(pontuacao, nome) ==
    IF \E j \in DOMAIN pontuacao : pontuacao[j][1] = nome
    THEN [j \in DOMAIN pontuacao |->
            IF pontuacao[j][1] = nome THEN <<nome, pontuacao[j][2] + 1>> ELSE pontuacao[j]]
    ELSE Append(pontuacao, <<nome, 1>>)

\* the loop over dados: the rows up to the i-th have been scored
RECURSIVE Pontuacao(_, _)
Pontuacao(dados, i) ==
    IF i = 0 THEN <<>>
    ELSE IF MissaRealizada(dados[i])
         THEN Pontuar(Pontuacao(dados, i - 1), dados[i].nome)
         ELSE Pontuacao(dados, i - 1)

\* (variant: a sort that is not stable, an item goes before its equals)
RECURSIVE PorPontos_instavel(_, _)
PorPontos_instavel(itens, i) ==
    IF i = 0 THEN <<>>
    ELSE LET antes == PorPontos_instavel(itens, i - 1)
             x == itens[i]
             Maior(y) == y[2] > x[2]
             Menor(y) == y[2] <= x[2]
         IN  SelectSeq(antes, Maior) \o <<x>> \o SelectSeq(antes, Menor)

\* sorted(itens, key=lambda x: x[1], reverse=True) of the first i items: the
\* sort is stable, items with equal points keep their order
RECURSIVE PorPontos(_, _)
PorPontos(itens, i) ==
    IF i = 0 THEN <<>>
    ELSE LET antes == PorPontos(itens, i - 1)
             x == itens[i]
             Maior(y) == y[2] >= x[2]
             Menor(y) == y[2] < x[2]
         IN  SelectSeq(antes, Maior) \o <<x>> \o SelectSeq(antes, Menor)

\* obter_ranking() when fetchall gives dados; [] when there is no connection
obter_ranking(dados, ok) ==
    IF ok
    THEN LET pontuacao == Pontuacao(dados, Len(dados))
         IN  PorPontos(pontuacao, Len(pontuacao))
    ELSE <<>>

\* the results obter_ranking can give in this state
Rankings == {obter_ranking(d, TRUE) : d \in Varreduras}

----------------------------------------------------------------------------
(* listar_missas_futuras and listar_todas_missas.  data and hora are texts, *)
(* compared and ordered as texts, character code by character code.        *)

\* STRING_AGG(i.nome_acolito, ', ' ...) of the names in the order given
RECURSIVE Juntar(_)
Juntar(nomes) ==
    IF nomes = <<>> THEN <<>>
    ELSE IF Len(nomes) = 1 THEN nomes[1]
    ELSE nomes[1] \o <<44, 32>> \o Juntar(Tail(nomes))

\* nomes.split(',')
RECURSIVE Dividir(_)
Dividir(t) ==
    IF \A i \in DOMAIN t : t[i] # 44 THEN <<t>>
    ELSE LET k == CHOOSE i \in DOMAIN t : t[i] = 44 /\ \A j \in 1..(i - 1) : t[j] # 44
         IN  <<SubSeq(t, 1, k - 1)>> \o Dividir(SubSeq(t, k + 1, Len(t)))

\* `[nome.strip() for nome in nomes.split(',')] if nomes else []` for the
\* names of the mass e in the order of ORDER BY i.nome_acolito
nomes_lista(e) ==
    LET nomes == Juntar(OrdenarNomes(NomesDe(e)))
    IN  IF VagasPreenchidas(e) = 0 \/ nomes = <<>> THEN <<>>
        ELSE [i \in DOMAIN Dividir(nomes) |-> Strip(Dividir(nomes)[i])]

\* the dict of listar_todas_missas for the row m of missas
LinhaDeTodas(m) ==
    [id |-> m.id, data |-> m.data, hora |-> m.hora, vagas_totais |-> m.vagas_totais,
     vagas_preenchidas |-> VagasPreenchidas(m.id)]

\* the dict of listar_missas_futuras for the row m of missas
LinhaDeFuturas(m) ==
    [id |-> m.id, data |-> m.data, hora |-> m.hora, vagas_totais |-> m.vagas_totais,
     vagas_preenchidas |-> VagasPreenchidas(m.id), nomes_inscritos |-> nomes_lista(m.id)]

\* WHERE m.data >= hoje
Futura(m) == NomeMenorIgual(Hoje, m.data)

\* x may come before y under ORDER BY m.data, m.hora
PorDataHora(x, y) ==
    IF x.data # y.data THEN NomeMenorIgual(x.data, y.data) ELSE NomeMenorIgual(x.hora, y.hora)

\* x may come before y under ORDER BY m.data DESC, m.hora DESC
PorDataHoraDesc(x, y) == PorDataHora(y, x)

\* the rows in the orders ORDER BY m.data, m.hora allows: rows with the same
\* data and hora come in the order the store chooses
Ordenacoes(linhas) ==
    {l \in VarredurasDe(linhas) : \A i, j \in DOMAIN l : i < j => PorDataHora(l[i], l[j])}

\* the rows in the orders ORDER BY m.data DESC, m.hora DESC allows
OrdenacoesDesc(linhas) ==
    {l \in VarredurasDe(linhas) : \A i, j \in DOMAIN l : i < j => PorDataHoraDesc(l[i], l[j])}

\* the lists listar_missas_futuras() can return; [] when there is no connection
listar_missas_futuras(ok) ==
    IF ok
    THEN Ordenacoes({LinhaDeFuturas(m) : m \in {x \in missas : Futura(x)}})
    ELSE {<<>>}

\* the lists listar_todas_missas() can return; [] when there is no connection
listar_todas_missas(ok) ==
    IF ok
    THEN OrdenacoesDesc({LinhaDeTodas(m) : m \in missas})
    ELSE {<<>>}

----------------------------------------------------------------------------
(* tela_admin: the two lists of masses it draws from listar_todas_missas.  *)
(* Each loop reads the clock at every row (`agora = datetime.now(fuso)`),  *)
(* parses the texts of the row and skips the row when the try block raises *)
(* (`except: pass`).                                                       *)

\* `if agora <= (dt_missa + timedelta(hours=6)): missas_futuras.append(m)`,
\* the clock reading t at the row
Proxima(m, t) ==
    \E x \in prazo(m) : ~Depois(Momento(t), x)

\* `if agora > (dt_missa + timedelta(hours=6)): mostrar = True`, the clock
\* reading t at the row
mostrar(m, t) ==
    \E x \in prazo(m) : Depois(Momento(t), x)

\* the list "Próximas Celebrações" for the rows of listar_todas_missas, the
\* clock reading relogio[i] at the i-th row: each row of the list has the
\* buttons that remove an inscricao and delete the mass
missas_futuras(lista, relogio) ==
    LET fica(i) == Proxima(lista[i], relogio[i])
        indices == SelectSeq([i \in 1..Len(lista) |-> i], fica)
    IN  [k \in 1..Len(indices) |-> lista[indices[k]]]

\* the list "Histórico/Correção" for the rows of listar_todas_missas, the
\* clock reading relogio[i] at the i-th row: each row of the list has the
\* buttons that remove and add a presence
historico(lista, relogio) ==
    LET fica(i) == mostrar(lista[i], relogio[i])
        indices == SelectSeq([i \in 1..Len(lista) |-> i], fica)
    IN  [k \in 1..Len(indices) |-> lista[indices[k]]]

\* the clock readings of a loop over n rows that starts at the instant now:
\* no reading is earlier than the one before it, and the loop ends at most
\* MaxAtraso minutes after it starts
MaxAtraso == 1
Relogios(n) ==
    {r \in [1..n -> agora..(agora + MaxAtraso)] : \A i, j \in 1..n : i < j => r[i] <= r[j]}

\* the readings of a clock that stands at now while the screen is drawn
RelogioParado(n) == [i \in 1..n |-> agora]

----------------------------------------------------------------------------
(* The observer of a sequential run.  It follows the pair (E, V) of the    *)
(* last successful inscrever_acolito: whether the pair has been withdrawn  *)
(* since, what inscricoes was before that call, and how many times in a    *)
(* row the pair has been enrolled and withdrawn.                           *)

MesmoPar(c) == c.missa_id = mon.missa_id /\ c.nome = mon.nome

\* the observer after the call c has returned; inscricoes is the table before
\* the returning step and inscricoes' the table after it
Observar(c) ==
    IF c.op = "inscrever_acolito" /\ c.ret
    THEN [fase |-> "inscrito", missa_id |-> c.missa_id, nome |-> c.nome,
          antes |-> inscricoes, limpo |-> TRUE,
          ciclos |-> IF mon.fase = "retirado" /\ MesmoPar(c) THEN mon.ciclos ELSE 0]
    ELSE IF mon.fase = "inscrito"
    THEN IF c.op = "desinscrever_acolito" /\ MesmoPar(c) /\ c.conn
         THEN [mon EXCEPT !.fase = "retirado",
                          !.ciclos = IF mon.ciclos < MaxCiclos THEN mon.ciclos + 1 ELSE MaxCiclos]
         ELSE IF \/ c.op = "remover_inscricao_admin" /\ MesmoPar(c) /\ c.ret
                 \/ c.op = "excluir_missa" /\ c.missa_id = mon.missa_id /\ c.ret
         THEN SemObservacao
         ELSE IF inscricoes' # inscricoes
         THEN [mon EXCEPT !.limpo = FALSE, !.antes = EmptyBag]
         ELSE mon
    ELSE IF mon.fase = "retirado"
    THEN IF inscricoes' # inscricoes \/ missas' # missas THEN SemObservacao ELSE mon
    ELSE mon

---------------------------------------------------------------------------------------------------------------------------------------------------
(* Specifications *)

\* Concurrent request handlers with a reachable store, before the masses are
\* held: any interleaving of the steps of their calls.
InitConc == Init /\ agora = AgoraAntes /\ zona = 0

Next ==
    \E p \in Procs :
        \/ cadastrar_missa(p, MaxMissasConc, AgendaDoDia, Vagas, {TRUE}, {FALSE}) /\ UNCHANGED mon
        \/ inscrever_acolito(p, 1..MaxMissasConc, Nomes, {TRUE}) /\ UNCHANGED mon
        \/ desinscrever_acolito(p, 1..MaxMissasConc, {TRUE}) /\ UNCHANGED mon
        \/ remover_inscricao_admin(p, 1..MaxMissasConc, {TRUE}) /\ UNCHANGED mon
        \/ excluir_missa(p, 1..MaxMissasConc, {TRUE}) /\ UNCHANGED mon
        \/ excluir_missa_retomar(p) /\ UNCHANGED mon
        \/ impasse(p) /\ UNCHANGED mon
        \/ retornar(p) /\ UNCHANGED mon

Spec == InitConc /\ [][Next]_vars

\* One request handler: every call returns before the next one starts.  The
\* handler runs either before the masses are held or after they are over.
NextSeq ==
    \/ cadastrar_missa(1, MaxMissas, AgendaDoDia, Vagas, BOOLEAN, {FALSE}) /\ UNCHANGED mon
    \/ inscrever_acolito(1, 1..MaxMissas, Nomes, BOOLEAN) /\ UNCHANGED mon
    \/ desinscrever_acolito(1, 1..MaxMissas, BOOLEAN) /\ UNCHANGED mon
    \/ remover_inscricao_admin(1, 1..MaxMissas, BOOLEAN) /\ UNCHANGED mon
    \/ excluir_missa(1, 1..MaxMissas, BOOLEAN) /\ UNCHANGED mon
    \/ cadastrar_acolito(1, {NomeA}, BOOLEAN) /\ UNCHANGED mon
    \/ remover_acolito(1, {NomeA}, BOOLEAN) /\ UNCHANGED mon
    \/ retornar(1) /\ UNCHANGED mon

SeqSpec == Init /\ [][NextSeq]_vars

\* One request handler, followed by the observer.
Observado == mon' = IF proc'[1].pc = "done" THEN Observar(proc'[1]) ELSE mon

NextObs ==
    \/ cadastrar_missa(1, MaxMissasObs, AgendaDoDia, Vagas, BOOLEAN, {FALSE}) /\ Observado
    \/ inscrever_acolito(1, 1..MaxMissasObs, Nomes, BOOLEAN) /\ Observado
    \/ desinscrever_acolito(1, 1..MaxMissasObs, BOOLEAN) /\ Observado
    \/ remover_inscricao_admin(1, 1..MaxMissasObs, BOOLEAN) /\ Observado
    \/ excluir_missa(1, 1..MaxMissasObs, BOOLEAN) /\ Observado
    \/ retornar(1) /\ UNCHANGED mon

ObsSpec == Init /\ [][NextObs]_vars

\* The race for the seats of one mass: the mass exists and is empty, and every
\* handler makes one call of inscrever_acolito for it.
InitCorrida ==
    /\ \E v \in Vagas :
          missas = {[id |-> 1, data |-> DataMissa, hora |-> HoraMissa, vagas_totais |-> v]}
    /\ inscricoes = EmptyBag
    /\ acolitos = {}
    /\ seq_missa = 2
    /\ proc = [p \in Procs |-> Ocioso]
    /\ agora = AgoraAntes
    /\ zona = 0
    /\ mon = SemObservacao

NextCorrida ==
    /\ \E p \in Procs : inscrever_acolito(p, {1}, Nomes, {TRUE})
    /\ UNCHANGED mon

CorridaSpec == InitCorrida /\ [][NextCorrida]_vars

\* The scoring: one handler creates masses whose texts may not parse, or
\* are of the first or the last day of the calendar, and enrolls, at one of
\* three instants around the sixth hour after the mass of 2024-01-01 10:00.
MaxMissasPlacar == 2   \* ids ever drawn from the sequence of missas in a run of the scoring
MaxLinhasPlacar == 3   \* rows of inscricoes in a run of the scoring

DataInvalida == FormatarData(<<2024, 2, 30>>)
HoraInvalida == FormatarHora(<<25, 0>>)

\* the first and the last day of the calendar, as the texts "0001-01-01"
\* and "9999-12-31"
DataInicial == <<48, 48, 48, 49, 45, 48, 49, 45, 48, 49>>
DataFinal == <<57, 57, 57, 57, 45, 49, 50, 45, 51, 49>>

AgendasPlacar ==
    {<<DataMissa, HoraMissa>>, <<DataInvalida, HoraMissa>>, <<DataMissa, HoraInvalida>>,
     <<DataInicial, HoraMissa>>, <<DataFinal, HoraMissa>>}

InstantesPlacar ==
    {Instante(Ordinal(2024, 1, 1), 15 * 60 + 59), Instante(Ordinal(2024, 1, 1), 16 * 60),
     Instante(Ordinal(2024, 1, 1), 16 * 60 + 1)}

InitPlacar ==
    /\ missas = {}
    /\ inscricoes = EmptyBag
    /\ acolitos = {}
    /\ seq_missa = 1
    /\ proc = [p \in Procs |-> Ocioso]
    /\ agora \in InstantesPlacar
    /\ zona = 0
    /\ mon = SemObservacao

NextPlacar ==
    \/ cadastrar_missa(1, MaxMissasPlacar, AgendasPlacar, {2}, {TRUE}, {FALSE}) /\ UNCHANGED mon
    \/ /\ BagCardinality(inscricoes) < MaxLinhasPlacar
       /\ inscrever_acolito(1, 1..MaxMissasPlacar, Nomes, {TRUE})
       /\ UNCHANGED mon
    \/ retornar(1) /\ UNCHANGED mon

PlacarSpec == InitPlacar /\ [][NextPlacar]_vars

\* The correction of the presences of a mass: one handler creates masses,
\* enrolls and removes as the coordinator does, before or after the masses
\* are held, followed by an observer of the steps of a correction: an
\* enrollment denied for a full mass, then a seat of that mass freed by
\* remover_inscricao_admin, then a new enrollment in it.
MaxMissasCorrecao == 1   \* ids ever drawn from the sequence of missas in a run of the correction

SemCorrecao == [fase |-> "nenhuma", missa_id |-> 0, negado |-> <<>>, removido |-> <<>>]

\* the observer after the call c has returned; the tables unprimed are those
\* before the returning step
ObservarCorrecao(c) ==
    IF /\ c.op = "inscrever_acolito" /\ ~c.ret
       /\ c.missa_id \in MissaIds
       /\ VagasPreenchidas(c.missa_id) >= MissaDe(c.missa_id).vagas_totais
       /\ Linha(c.missa_id, c.nome) \notin DOMAIN inscricoes
    THEN [fase |-> "negada", missa_id |-> c.missa_id, negado |-> c.nome, removido |-> <<>>]
    ELSE IF /\ mon.fase = "negada"
            /\ c.op = "remover_inscricao_admin" /\ c.ret
            /\ c.missa_id = mon.missa_id
    THEN [mon EXCEPT !.fase = "liberada", !.removido = c.nome]
    ELSE IF /\ mon.fase = "liberada"
            /\ c.op = "inscrever_acolito" /\ c.ret
            /\ c.missa_id = mon.missa_id /\ c.nome = mon.negado
    THEN [mon EXCEPT !.fase = "corrigida"]
    ELSE IF inscricoes' # inscricoes \/ missas' # missas \/ mon.fase = "corrigida"
    THEN SemCorrecao
    ELSE mon

Corrigido == mon' = IF proc'[1].pc = "done" THEN ObservarCorrecao(proc'[1]) ELSE mon

InitCorrecao ==
    /\ missas = {}
    /\ inscricoes = EmptyBag
    /\ acolitos = {}
    /\ seq_missa = 1
    /\ proc = [p \in Procs |-> Ocioso]
    /\ agora \in {AgoraAntes, AgoraDepois}
    /\ zona = 0
    /\ mon = SemCorrecao

NextCorrecao ==
    \/ cadastrar_missa(1, MaxMissasCorrecao, AgendaDoDia, Vagas, {TRUE}, {FALSE}) /\ Corrigido
    \/ inscrever_acolito(1, 1..MaxMissasCorrecao, Nomes, {TRUE}) /\ Corrigido
    \/ remover_inscricao_admin(1, 1..MaxMissasCorrecao, {TRUE}) /\ Corrigido
    \/ retornar(1) /\ UNCHANGED mon

CorrecaoSpec == InitCorrecao /\ [][NextCorrecao]_vars

\* The directory: one handler registers and removes names as they are typed
\* in the form of tela_admin, which passes the text of the field as it is:
\* "A", " A", "A" and a tab, "A B", the empty text and one space.
NomesDigitados == {NomeA, <<32, 65>>, <<65, 9>>, <<65, 32, 66>>, <<>>, <<32>>}

NextDir ==
    \/ cadastrar_acolito(1, NomesDigitados, BOOLEAN) /\ UNCHANGED mon
    \/ remover_acolito(1, NomesDigitados, BOOLEAN) /\ UNCHANGED mon
    \/ retornar(1) /\ UNCHANGED mon

DirSpec == InitConc /\ [][NextDir]_vars

\* The catalog: one handler calls cadastrar_missa with any number of seats
\* and the texts of the eve of 2024-01-01, of that day at two hours and of
\* the next day, and deletes masses.  Now is 09:00 or 22:00 of 2024-01-01 or
\* 10:00 of 2024-01-02, and the process runs in either zone.
MaxMissasCatalogo == 2   \* ids ever drawn from the sequence in a run of the catalog

VagasQuaisquer == {-1, 0, 1}

AgendasCatalogo ==
    {<<FormatarData(<<2023, 12, 31>>), FormatarHora(<<19, 0>>)>>,
     <<DataMissa, HoraMissa>>,
     <<DataMissa, FormatarHora(<<9, 30>>)>>,
     <<FormatarData(<<2024, 1, 2>>), HoraMissa>>}

AgoraNoite == Instante(Ordinal(2024, 1, 1), 22 * 60)

InitCatalogo ==
    /\ missas = {}
    /\ inscricoes = EmptyBag
    /\ acolitos = {}
    /\ seq_missa = 1
    /\ proc = [p \in Procs |-> Ocioso]
    /\ agora \in {AgoraAntes, AgoraNoite, AgoraDepois}
    /\ zona \in Zonas
    /\ mon = SemObservacao

NextCatalogo ==
    \/ cadastrar_missa(1, MaxMissasCatalogo, AgendasCatalogo, VagasQuaisquer, {TRUE}, {FALSE})
          /\ UNCHANGED mon
    \/ excluir_missa(1, 1..MaxMissasCatalogo, {TRUE}) /\ UNCHANGED mon
    \/ retornar(1) /\ UNCHANGED mon

CatalogoSpec == InitCatalogo /\ [][NextCatalogo]_vars

\* The annotations of the listings: one handler registers the names "A",
\* "B" and "A,B", creates a mass, and calls inscrever_acolito with those
\* names, which it takes as they are given (the name of the session, chosen
\* at the login, or the name chosen in the correction of a mass).
MaxMissasAnotacao == 1   \* ids ever drawn from the sequence of missas in a run of the annotations

NomesAnotacao == {NomeA, NomeB, <<65, 44, 66>>}

NextAnotacao ==
    \/ cadastrar_missa(1, MaxMissasAnotacao, AgendaDoDia, Vagas, {TRUE}, {FALSE}) /\ UNCHANGED mon
    \/ cadastrar_acolito(1, NomesAnotacao, {TRUE}) /\ UNCHANGED mon
    \/ inscrever_acolito(1, 1..MaxMissasAnotacao, NomesAnotacao, {TRUE}) /\ UNCHANGED mon
    \/ desinscrever_acolito(1, 1..MaxMissasAnotacao, {TRUE}) /\ UNCHANGED mon
    \/ retornar(1) /\ UNCHANGED mon

AnotacaoSpec == Init /\ [][NextAnotacao]_vars


\* The aborted calls: one handler calls the seven functions that write, and
\* a call in flight may be cut short at any step before its commit.  An
\* observer keeps the tables as they were when the call in flight started.
MaxMissasAborto == 2   \* ids ever drawn from the sequence of missas in a run with aborted calls

SemAborto ==
    [fase |-> "nenhuma", op |-> "idle", passo |-> "idle", missas |-> {},
     inscricoes |-> EmptyBag, acolitos |-> {}]

\* the observer after a step of a call: a call that starts is remembered with
\* the tables before its first statement
Iniciado ==
    mon' = IF Livre(1) /\ proc'[1].pc # "idle"
           THEN [fase |-> "em_curso", op |-> proc'[1].op, passo |-> "idle",
                 missas |-> missas, inscricoes |-> inscricoes, acolitos |-> acolitos]
           ELSE mon

\* the observer after the call in flight is cut short before the step passo
Abortado == mon' = [mon EXCEPT !.fase = "abortada", !.passo = proc[1].pc]

InitAborto ==
    /\ missas = {}
    /\ inscricoes = EmptyBag
    /\ acolitos = {}
    /\ seq_missa = 1
    /\ proc = [p \in Procs |-> Ocioso]
    /\ agora = AgoraAntes
    /\ zona = 0
    /\ mon = SemAborto

NextAborto ==
    \/ cadastrar_missa(1, MaxMissasAborto, AgendaDoDia, Vagas, {TRUE}, BOOLEAN) /\ Iniciado
    \/ inscrever_acolito(1, 1..MaxMissasAborto, Nomes, {TRUE}) /\ Iniciado
    \/ excluir_missa(1, 1..MaxMissasAborto, {TRUE}) /\ Iniciado
    \/ desinscrever_acolito(1, 1..MaxMissasAborto, {TRUE}) /\ Iniciado
    \/ remover_inscricao_admin(1, 1..MaxMissasAborto, {TRUE}) /\ Iniciado
    \/ cadastrar_acolito(1, {NomeA}, {TRUE}) /\ Iniciado
    \/ remover_acolito(1, {NomeA}, {TRUE}) /\ Iniciado
    \/ abortar(1) /\ Abortado
    \/ retornar(1) /\ UNCHANGED mon

AbortoSpec == InitAborto /\ [][NextAborto]_vars

\* The race of two withdrawals: two masses exist, the pair (E, V) is enrolled
\* among other rows, and every handler makes one call of desinscrever_acolito
\* for that pair.  The observer holds the pair and the table before the calls.
MissasRetirada == {1, 2}

ParRetirado(e, n, antes) == [missa_id |-> e, nome |-> n, antes |-> antes]

InitRetirada ==
    /\ missas = {[id |-> e, data |-> DataMissa, hora |-> HoraMissa, vagas_totais |-> 2] :
                    e \in MissasRetirada}
    /\ \E linhas \in SUBSET {Linha(e, n) : e \in MissasRetirada, n \in Nomes} :
          /\ linhas # {}
          /\ inscricoes = SetToBag(linhas)
          /\ \E r \in linhas : mon = ParRetirado(r.missa_id, r.nome_acolito, SetToBag(linhas))
    /\ acolitos = Nomes
    /\ seq_missa = 3
    /\ proc = [p \in Procs |-> Ocioso]
    /\ agora = AgoraAntes
    /\ zona = 0

NextRetirada ==
    /\ \E p \in Procs :
          \/ desinscrever_acolito_delete(p, mon.missa_id, mon.nome, TRUE)
          \/ desinscrever_acolito_commit(p)
    /\ UNCHANGED mon

RetiradaSpec == InitRetirada /\ [][NextRetirada]_vars

\* The calls that may wait for each other: the mass 1 exists with some of its
\* seats taken, and two handlers call inscrever_acolito, desinscrever_acolito,
\* remover_inscricao_admin and excluir_missa for it, again and again.  A call
\* starts when the function is entered (chamar).  The first statement of the
\* three functions of one row runs when no other transaction holds the lock
\* it needs, and they hold no lock while they wait; a DELETE of excluir_missa
\* starts at once, takes the locks it can and waits with them.  The observer
\* holds, for each handler, the call that has started and not run its first
\* statement.
MissasVida == {1}

SemPedido == [op |-> "idle", missa_id |-> 0, nome |-> <<>>]

Pedido(o, e, n) == [op |-> o, missa_id |-> e, nome |-> n]

\* the function is entered and get_db_connection has opened the connection
chamar(p) ==
    /\ Livre(p)
    /\ mon[p] = SemPedido
    /\ \E e \in MissasVida, n \in Nomes :
          mon' \in {[mon EXCEPT ![p] = Pedido("inscrever_acolito", e, n)],
                    [mon EXCEPT ![p] = Pedido("desinscrever_acolito", e, n)],
                    [mon EXCEPT ![p] = Pedido("remover_inscricao_admin", e, n)],
                    [mon EXCEPT ![p] = Pedido("excluir_missa", e, <<>>)]}
    /\ UNCHANGED <<missas, inscricoes, acolitos, seq_missa, proc, agora, zona>>

\* the first statement of the call of p that has started
primeiro_comando(p) ==
    /\ mon[p] # SemPedido
    /\ mon' = [mon EXCEPT ![p] = SemPedido]
    /\ \/ /\ mon[p].op = "inscrever_acolito"
          /\ inscrever_acolito_vagas(p, mon[p].missa_id, mon[p].nome, TRUE)
       \/ /\ mon[p].op = "desinscrever_acolito"
          /\ desinscrever_acolito_delete(p, mon[p].missa_id, mon[p].nome, TRUE)
       \/ /\ mon[p].op = "remover_inscricao_admin"
          /\ remover_inscricao_admin_delete(p, mon[p].missa_id, mon[p].nome, TRUE)
       \/ /\ mon[p].op = "excluir_missa"
          /\ excluir_missa_inscricoes(p, mon[p].missa_id, TRUE)

\* the statements after the first and the commit of the call of p in flight,
\* a waiting DELETE of excluir_missa that goes on, and the abort of an
\* excluir_missa that waits in a cycle
comando_seguinte(p) ==
    /\ \/ inscrever_acolito_duplicata(p)
       \/ inscrever_acolito_insert(p)
       \/ inscrever_acolito_commit(p)
       \/ desinscrever_acolito_commit(p)
       \/ remover_inscricao_admin_commit(p)
       \/ excluir_missa_missa(p)
       \/ excluir_missa_retomar(p)
       \/ impasse(p)
       \/ excluir_missa_commit(p)
    /\ UNCHANGED mon

\* a step of the call of p: the store runs the statement the handler has
\* sent, wakes a statement whose lock is free, or breaks a deadlock
comando(p) == primeiro_comando(p) \/ comando_seguinte(p)

InitVida ==
    /\ \E v \in Vagas, linhas \in SUBSET {Linha(e, n) : e \in MissasVida, n \in Nomes} :
          /\ Cardinality(linhas) <= v
          /\ missas = {[id |-> e, data |-> DataMissa, hora |-> HoraMissa, vagas_totais |-> v] :
                          e \in MissasVida}
          /\ inscricoes = SetToBag(linhas)
    /\ acolitos = Nomes
    /\ seq_missa = 2
    /\ proc = [p \in Procs |-> Ocioso]
    /\ agora = AgoraAntes
    /\ zona = 0
    /\ mon = [p \in Procs |-> SemPedido]

NextVida ==
    \E p \in Procs :
        \/ chamar(p)
        \/ primeiro_comando(p)
        \/ comando_seguinte(p)
        \/ retornar(p) /\ UNCHANGED mon

\* The store runs every statement it is sent: a statement that waits for a
\* lock runs once the transaction that holds the lock has ended (strong
\* fairness: the waiter is woken at that commit, it does not have to find
\* the lock free for ever).  Nothing makes a handler start a call or a user
\* come back after one.
VidaSpec == InitVida /\ [][NextVida]_vars /\ \A p \in Procs : SF_vars(comando(p))

\* The race of two registrations: the directory holds other names, and every
\* handler makes one call of cadastrar_acolito with a text whose strip() is
\* "A": "A", " A", or "A" and a tab.  The observer holds the directory before
\* the calls.
NomesIguais == {NomeA, <<32, 65>>, <<65, 9>>}

OutrosNomes == {NomeB, <<65, 32, 66>>, <<>>}

InitCadastro ==
    /\ missas = {}
    /\ inscricoes = EmptyBag
    /\ acolitos \in SUBSET OutrosNomes
    /\ seq_missa = 1
    /\ proc = [p \in Procs |-> Ocioso]
    /\ agora = AgoraAntes
    /\ zona = 0
    /\ mon = acolitos

NextCadastro ==
    /\ \E p \in Procs : cadastrar_acolito(p, NomesIguais, {TRUE})
    /\ UNCHANGED mon

CadastroSpec == InitCadastro /\ [][NextCadastro]_vars

----------------------------------------------------------------------------
(* Properties of concurrent calls *)

\* C1: in every committed state, every mass has at most vagas_totais
\* inscricoes, whatever the interleaving of the steps of inscrever_acolito.
C1_VagasNuncaExcedidas ==
    \A m \in missas : VagasPreenchidas(m.id) <= m.vagas_totais

Min(a, b) == IF a < b THEN a ELSE b

\* C2: when every handler has made one call of inscrever_acolito for the same
\* empty mass, each for a different acolito, and all calls have returned,
\* exactly min(N, free seats) of the N calls have returned True.
C2_ExatamenteMinSucessos ==
    (/\ \A p \in Procs : proc[p].pc = "done"
     /\ \A p, q \in Procs : p # q => proc[p].nome # proc[q].nome)
    => Cardinality({p \in Procs : proc[p].ret})
          = Min(Cardinality(Procs), MissaDe(1).vagas_totais)

\* the INSERT of p is rejected by the UNIQUE constraint at this step
InsertRejeitado(p) ==
    /\ proc[p].op = "inscrever_acolito"
    /\ proc[p].pc = "insert"
    /\ proc'[p].pc # "insert"
    /\ Linha(proc[p].missa_id, proc[p].nome) \in DOMAIN inscricoes

\* C3: the committed inscricoes never hold two rows with the same
\* (missa_id, nome_acolito); a call of inscrever_acolito that has passed its
\* own duplicate check and reaches the INSERT when the pair is committed
\* returns False and leaves the one row.
C3_UmaInscricaoPorPar ==
    [][/\ \A r \in DOMAIN inscricoes' : inscricoes'[r] = 1
       /\ \A p \in Procs : InsertRejeitado(p) =>
             /\ proc'[p] = Retornou("inscrever_acolito", proc[p].missa_id, proc[p].nome, FALSE, TRUE)
             /\ inscricoes' = inscricoes]_vars

\* both handlers have passed the duplicate check for the same pair of a mass
\* with a free seat; one has committed its row and returned True, and the
\* other stands before its INSERT
C3_Witness ==
    \E p, q \in Procs :
        /\ p # q
        /\ proc[p] = Retornou("inscrever_acolito", proc[q].missa_id, proc[q].nome, TRUE, TRUE)
        /\ proc[q] = EmCurso("inscrever_acolito", proc[q].missa_id, proc[q].nome, "insert")
        /\ MissaDe(proc[q].missa_id).vagas_totais = 2
        /\ InscricoesDe(proc[q].missa_id) = SetToBag({Linha(proc[q].missa_id, proc[q].nome)})

\* C10: every committed row of inscricoes references a committed row of
\* missas, also when an inscrever_acolito has read the mass before an
\* excluir_missa commits and inserts after it.
C10_SemInscricaoOrfa ==
    \A r \in DOMAIN inscricoes : r.missa_id \in MissaIds

\* an inscrever_acolito that read the mass as existing stands before its
\* INSERT, and the excluir_missa of the other handler has committed
C10_Witness ==
    \E p, q \in Procs :
        /\ p # q
        /\ proc[p].op = "inscrever_acolito" /\ proc[p].pc = "insert"
        /\ proc[q].op = "excluir_missa" /\ proc[q].pc = "done"
        /\ proc[q].missa_id = proc[p].missa_id
        /\ proc[p].missa_id \notin MissaIds

----------------------------------------------------------------------------
(* Properties of one call at a time *)

\* the call o of handler p returns at this step
Retorna(p, o) == proc[p].pc # "done" /\ proc'[p].pc = "done" /\ proc'[p].op = o

\* the three conditions of an enrollment, on the committed tables
PodeInscrever(e, n) ==
    /\ e \in MissaIds
    /\ VagasPreenchidas(e) < MissaDe(e).vagas_totais
    /\ Linha(e, n) \notin DOMAIN inscricoes

\* C4: with a connection and no other call in flight, inscrever_acolito(E, V)
\* returns True if and only if E exists, E has fewer inscricoes than
\* vagas_totais and (E, V) is not in inscricoes; and then inscricoes gains
\* exactly the row (E, V).
C4_InscreveSeESomenteSe ==
    [][(Retorna(1, "inscrever_acolito") /\ proc'[1].conn) =>
          LET e == proc'[1].missa_id
              n == proc'[1].nome
          IN  /\ proc'[1].ret <=> PodeInscrever(e, n)
              /\ proc'[1].ret =>
                    /\ inscricoes' = inscricoes (+) SetToBag({Linha(e, n)})
                    /\ UNCHANGED <<missas, acolitos>>]_vars

\* an inscrever_acolito has returned True and taken the last of two seats
C4_Witness ==
    /\ proc[1].op = "inscrever_acolito" /\ proc[1].pc = "done" /\ proc[1].ret
    /\ MissaDe(proc[1].missa_id).vagas_totais = 2
    /\ VagasPreenchidas(proc[1].missa_id) = 2

\* C5: an inscrever_acolito(E, V) that fails because E does not exist, E is
\* full or (E, V) is already there returns the same value False in the three
\* cases and leaves missas, inscricoes and acolitos as they were.
C5_FalhaUniformeSemEfeito ==
    [][(/\ Retorna(1, "inscrever_acolito")
        /\ proc'[1].conn
        /\ ~PodeInscrever(proc'[1].missa_id, proc'[1].nome)) =>
          /\ proc'[1] = Retornou("inscrever_acolito", proc'[1].missa_id, proc'[1].nome, FALSE, TRUE)
          /\ UNCHANGED <<missas, inscricoes, acolitos, seq_missa>>]_vars

\* an inscrever_acolito has returned False for a mass that is full and whose
\* seats are held by others, with an acolito in the directory
C5_Witness ==
    /\ proc[1] = Retornou("inscrever_acolito", proc[1].missa_id, proc[1].nome, FALSE, TRUE)
    /\ proc[1].op = "inscrever_acolito"
    /\ proc[1].missa_id \in MissaIds
    /\ VagasPreenchidas(proc[1].missa_id) = MissaDe(proc[1].missa_id).vagas_totais
    /\ Linha(proc[1].missa_id, proc[1].nome) \notin DOMAIN inscricoes
    /\ acolitos # {}

\* C8: with a connection, desinscrever_acolito(E, V) and
\* remover_inscricao_admin(E, V) each return True if and only if (E, V) was in
\* inscricoes, leave inscricoes without (E, V) and otherwise as it was, and
\* leave missas and acolitos as they were, whether the mass is over or not.
C8_RemocoesIdenticas ==
    [][\A o \in {"desinscrever_acolito", "remover_inscricao_admin"} :
          (Retorna(1, o) /\ proc'[1].conn) =>
             LET r == Linha(proc'[1].missa_id, proc'[1].nome)
             IN  /\ proc'[1].ret <=> r \in DOMAIN inscricoes
                 /\ inscricoes' = RemoverLinhas(inscricoes, {r})
                 /\ UNCHANGED <<missas, acolitos>>]_vars

\* a desinscrever_acolito has returned True for a mass that is over, and
\* another inscricao and an acolito are left
C8_Witness ==
    /\ proc[1] = Retornou("desinscrever_acolito", proc[1].missa_id, proc[1].nome, TRUE, TRUE)
    /\ proc[1].missa_id \in MissaIds
    /\ MissaRealizada(MissaDe(proc[1].missa_id))
    /\ DOMAIN inscricoes # {}
    /\ acolitos # {}

\* the handler p takes a step of a call of excluir_missa (of the mass e, one
\* of the ids 1..MaxMissas); the commit of another handler, which takes rows
\* out of falta, is not a step of p
PassoDeExclusao(p) ==
    /\ proc'[p].op = "excluir_missa"
    /\ [proc'[p] EXCEPT !.falta = {}] # [proc[p] EXCEPT !.falta = {}]

\* the call of excluir_missa of handler p has committed at this step
ExclusaoConfirmada(p) == proc'[p].pc = "done" /\ proc'[p].conn /\ proc'[p].ret

\* C9: the commit of excluir_missa(E) leaves E out of missas and no row of E
\* in inscricoes, so that listar_inscritos(E) is empty, and changes nothing
\* else: it removes the row of E and the rows of inscricoes of E; no other
\* step of excluir_missa changes a committed table.
C9_ExclusaoAtomica ==
    [][\A p \in Procs : PassoDeExclusao(p) =>
          \A e \in {x \in 1..MaxMissas : proc'[p].missa_id = x} :
              IF ExclusaoConfirmada(p)
              THEN /\ e \notin {m.id : m \in missas'}
                   /\ \A r \in DOMAIN inscricoes' : r.missa_id # e
                   /\ listar_inscritos(e, TRUE)' = <<>>
                   /\ missas' = {m \in missas : m.id # e}
                   /\ inscricoes' = RemoverLinhas(inscricoes, DOMAIN InscricoesDe(e))
                   /\ UNCHANGED acolitos
              ELSE UNCHANGED <<missas, inscricoes, acolitos>>]_vars

\* at its commit excluir_missa(E) either removes E together with every row
\* of E in inscricoes, or, when E was not committed yet when its DELETE ran,
\* changes nothing; E is never left without its inscricoes, nor inscricoes
\* of E without E, and no other step of excluir_missa changes a committed
\* table
C9_ExclusaoSemEstadoParcial ==
    [][\A p \in Procs : PassoDeExclusao(p) =>
          \A e \in {x \in 1..MaxMissas : proc'[p].missa_id = x} :
              IF ExclusaoConfirmada(p) /\ \E m \in proc[p].apagada : m \in missas
              THEN /\ e \notin {m.id : m \in missas'}
                   /\ \A r \in DOMAIN inscricoes' : r.missa_id # e
                   /\ listar_inscritos(e, TRUE)' = <<>>
                   /\ missas' = {m \in missas : m.id # e}
                   /\ inscricoes' = RemoverLinhas(inscricoes, DOMAIN InscricoesDe(e))
                   /\ UNCHANGED acolitos
              ELSE UNCHANGED <<missas, inscricoes, acolitos>>]_vars

\* an excluir_missa(E) whose two DELETEs ran before E was committed stands
\* before its commit, and E is committed by now with an inscricao
C9_ExclusaoDeMissaNova ==
    \E p \in Procs :
        /\ proc[p].op = "excluir_missa" /\ proc[p].pc = "commit"
        /\ proc[p].apagada = {}
        /\ proc[p].missa_id \in MissaIds
        /\ VagasPreenchidas(proc[p].missa_id) > 0

\* an excluir_missa has returned after deleting a mass with inscricoes, and
\* another mass with an inscricao is left
C9_Witness ==
    /\ proc[1].op = "excluir_missa" /\ proc[1].pc = "done" /\ proc[1].conn
    /\ proc[1].del # {}
    /\ proc[1].missa_id \notin MissaIds
    /\ \E m \in missas : VagasPreenchidas(m.id) > 0

----------------------------------------------------------------------------
(* Properties of a sequence of calls, stated with the observer *)

\* C6: once inscrever_acolito(E, V) has returned True, and as long as no call
\* has removed the pair since, another inscrever_acolito(E, V) returns False
\* and leaves inscricoes as it was, with (E, V) there once, whatever the number
\* of free seats of E.
C6_SegundaInscricaoFalha ==
    [][(/\ Retorna(1, "inscrever_acolito")
        /\ mon.fase = "inscrito"
        /\ MesmoPar(proc'[1])) =>
          /\ ~proc'[1].ret
          /\ inscricoes' = inscricoes
          /\ CopiesIn(Linha(mon.missa_id, mon.nome), inscricoes') = 1]_vars

\* the second inscrever_acolito of the pair has returned False with a
\* connection, for a mass that has a free seat
C6_Witness ==
    /\ mon.fase = "inscrito"
    /\ proc[1] = Retornou("inscrever_acolito", mon.missa_id, mon.nome, FALSE, TRUE)
    /\ VagasPreenchidas(mon.missa_id) < MissaDe(mon.missa_id).vagas_totais

\* C7: with a connection, a desinscrever_acolito(E, V) that follows a
\* successful inscrever_acolito(E, V), with inscricoes not changed in between,
\* returns True and leaves inscricoes, and so the count of E, as before the
\* enrollment; the inscrever_acolito(E, V) that follows returns True again.
C7_IdaEVolta ==
    [][/\ (/\ Retorna(1, "desinscrever_acolito")
           /\ proc'[1].conn
           /\ mon.fase = "inscrito"
           /\ mon.limpo
           /\ MesmoPar(proc'[1])) =>
             /\ proc'[1].ret
             /\ inscricoes' = mon.antes
             /\ VagasPreenchidas(mon.missa_id)' = VagasPreenchidas(mon.missa_id) - 1
       /\ (/\ Retorna(1, "inscrever_acolito")
           /\ proc'[1].conn
           /\ mon.fase = "retirado"
           /\ MesmoPar(proc'[1])) => proc'[1].ret]_vars

\* the pair has been enrolled and withdrawn twice in a row, and a third
\* inscrever_acolito of the pair has returned True
C7_Witness ==
    /\ mon.fase = "inscrito"
    /\ mon.ciclos >= 2
    /\ proc[1] = Retornou("inscrever_acolito", mon.missa_id, mon.nome, TRUE, TRUE)

----------------------------------------------------------------------------
(* Properties of the scoring *)

\* the minutes from the date and time of the reading l to the instant t when
\* the two are at most two days apart, and two days and the difference of
\* their times of day when they are further apart
MinutosDesde(l, t) ==
    LET dias == (t \div 1440) - Ordinal(l[1], l[2], l[3])
        perto == IF dias > 2 THEN 2 ELSE IF dias < -2 THEN -2 ELSE dias
    IN  perto * 1440 + (t % 1440) - (l[4] * 60 + l[5])

\* C11: for every mass whose date and time parse, the mass counts as held at
\* the instant now if and only if now is more than 6 hours (360 minutes) after
\* the date and time of the mass; the mass of 2024-01-01 10:00 does not count
\* at 15:59 nor at 16:00 of that day (minute 1063996800 of the calendar) and
\* counts from 16:01 on.
C11_RealizadaAposSeisHoras ==
    \A m \in missas :
        /\ \A l \in strptime(dt_str(m)) :
              MissaRealizada(m) <=> MinutosDesde(l, agora) > 360
        /\ (m.data = DataMissa /\ m.hora = HoraMissa) =>
              (MissaRealizada(m) <=> agora >= 738886 * 1440 + 16 * 60 + 1)

\* the same holds of every mass whose date is neither the first nor the
\* last day of the calendar; a mass of one of those two days does not count
\* as held at any instant
C11_RealizadaForaDosExtremos ==
    \A m \in missas :
        /\ \A l \in strptime(dt_str(m)) :
              IF dt_missa(l) = {}
              THEN ~MissaRealizada(m)
              ELSE MissaRealizada(m) <=> MinutosDesde(l, agora) > 360
        /\ (m.data = DataMissa /\ m.hora = HoraMissa) =>
              (MissaRealizada(m) <=> agora >= 738886 * 1440 + 16 * 60 + 1)

\* the mass of 2024-01-01 10:00 exists and now is exactly 16:00 of that day
C11_Witness ==
    /\ \E m \in missas : m.data = DataMissa /\ m.hora = HoraMissa /\ ~MissaRealizada(m)
    /\ agora = 738886 * 1440 + 16 * 60

\* the mass of 0001-01-01 10:00, whose texts parse, has an inscricao, now is
\* in 2024 and the mass does not count as held: obter_ranking returns []
C11_MissaDoPrimeiroDia ==
    /\ Livre(1)
    /\ \E m \in missas :
          /\ strptime(dt_str(m)) = {<<1, 1, 1, 10, 0>>}
          /\ ~MissaRealizada(m)
          /\ DOMAIN inscricoes = {Linha(m.id, NomeA)}
    /\ Rankings = {<<>>}

\* the points due to the name n: its inscricoes in masses held at now
PontosDevidos(n) ==
    Cardinality({r \in DOMAIN inscricoes :
                    /\ r.nome_acolito = n
                    /\ r.missa_id \in MissaIds
                    /\ MissaRealizada(MissaDe(r.missa_id))})

\* C12: when the handler calls obter_ranking (it has no other call in
\* flight), whatever the order of the rows, the result has exactly the names
\* with at least one inscricao in a mass held at now, each once, each with as
\* many points as it has inscricoes in masses held at now, in non-increasing
\* order of points.
C12_RankingContaRealizadas ==
    Livre(1) => \A rk \in Rankings :
        /\ {rk[i][1] : i \in DOMAIN rk} =
              {r.nome_acolito : r \in {x \in DOMAIN inscricoes : PontosDevidos(x.nome_acolito) > 0}}
        /\ \A i, j \in DOMAIN rk : i # j => rk[i][1] # rk[j][1]
        /\ \A i \in DOMAIN rk : rk[i][2] = PontosDevidos(rk[i][1])
        /\ \A i, j \in DOMAIN rk : i < j => rk[i][2] >= rk[j][2]

\* A and B are in a mass held, A alone is in another mass held, and the
\* ranking is [(A, 2), (B, 1)]
C12_Witness ==
    /\ Livre(1)
    /\ \E e1, e2 \in MissaIds :
          /\ e1 # e2
          /\ MissaRealizada(MissaDe(e1)) /\ MissaRealizada(MissaDe(e2))
          /\ MissaDe(e1).vagas_totais = 2
          /\ inscricoes = SetToBag({Linha(e1, NomeA), Linha(e1, NomeB), Linha(e2, NomeA)})
    /\ Rankings = {<< <<NomeA, 2>>, <<NomeB, 1>> >>}

\* the position in the rows d of the first row of the name n that scores
PrimeiraLinha(d, n) ==
    LET pontuam == {k \in DOMAIN d : d[k].nome = n /\ MissaRealizada(d[k])}
    IN  CHOOSE k \in pontuam : \A j \in pontuam : k <= j

\* the lowest id of the masses held in which the name n is
PrimeiraMissa(n) ==
    LET realizadas == {e \in MissaIds :
                          Linha(e, n) \in DOMAIN inscricoes /\ MissaRealizada(MissaDe(e))}
    IN  CHOOSE e \in realizadas : \A f \in realizadas : e <= f

\* C13 (as stated): names with equal points come in the order of the lowest
\* id of their masses held, and obter_ranking has one possible result.
C13_DesempatePorMissa ==
    Livre(1) =>
    /\ Cardinality(Rankings) <= 1
    /\ \A rk \in Rankings : \A i, j \in DOMAIN rk :
          (i < j /\ rk[i][2] = rk[j][2]) => PrimeiraMissa(rk[i][1]) <= PrimeiraMissa(rk[j][1])

\* C13 (amended): for the rows in the order fetchall gives them, names with
\* equal points come in the order in which their first scoring rows come; the
\* order of the rows is the store's choice.
C13_DesempatePelaVarredura ==
    Livre(1) => \A d \in Varreduras :
        LET rk == obter_ranking(d, TRUE)
        IN  \A i, j \in DOMAIN rk :
               (i < j /\ rk[i][2] = rk[j][2]) =>
                   PrimeiraLinha(d, rk[i][1]) < PrimeiraLinha(d, rk[j][1])

\* A and B have one point each, A in the mass with the higher id: both orders
\* of the two names are results of obter_ranking
C13_Witness ==
    /\ Livre(1)
    /\ Linha(2, NomeA) \in DOMAIN inscricoes /\ Linha(1, NomeA) \notin DOMAIN inscricoes
    /\ Linha(1, NomeB) \in DOMAIN inscricoes /\ Linha(2, NomeB) \notin DOMAIN inscricoes
    /\ {1, 2} \subseteq MissaIds
    /\ << <<NomeA, 1>>, <<NomeB, 1>> >> \in Rankings
    /\ << <<NomeB, 1>>, <<NomeA, 1>> >> \in Rankings

\* the rows of the ranking's SELECT whose date and time parse
LinhasLegiveis == {x \in LinhasDoRanking : strptime(dt_str(x)) # {}}

\* C14: the inscricoes of the masses whose date or time does not parse change
\* nothing in the results of a call of obter_ranking: they are the results for the
\* inscricoes of the other masses alone.
C14_TextoInvalidoNaoPontua ==
    Livre(1) => Rankings = {obter_ranking(d, TRUE) : d \in VarredurasDe(LinhasLegiveis)}

\* a name is in a mass whose texts do not parse and in a mass held, and has
\* one point
C14_Witness ==
    /\ Livre(1)
    /\ \E x, y \in LinhasDoRanking :
          /\ x.nome = y.nome
          /\ strptime(dt_str(x)) = {}
          /\ MissaRealizada(y)
          /\ \A rk \in Rankings : \E i \in DOMAIN rk : rk[i] = <<x.nome, 1>>
    /\ Rankings # {}

----------------------------------------------------------------------------
(* Properties of the correction of a mass *)

\* the points the name n has from masses held other than e
PontosDeOutras(n, e) ==
    Cardinality({r \in DOMAIN inscricoes :
                    /\ r.nome_acolito = n
                    /\ r.missa_id # e
                    /\ r.missa_id \in MissaIds
                    /\ MissaRealizada(MissaDe(r.missa_id))})

\* C15: whether the mass is held or not, an inscrever_acolito of a name that is
\* not in a full mass returns False and changes nothing; after an enrollment
\* denied for a full mass and a remover_inscricao_admin that has freed a seat
\* of it, the inscrever_acolito of the name denied returns True; and for a
\* mass held, obter_ranking then gives the new name its point for that mass
\* and gives the name removed no point for it.
C15_CorrecaoDeMissaRealizada ==
    [][\A e \in 1..MaxMissasCorrecao, v1, v2 \in Nomes :
          (/\ Retorna(1, "inscrever_acolito")
           /\ proc'[1].missa_id = e /\ proc'[1].nome = v2
           /\ e \in MissaIds) =>
             /\ (/\ VagasPreenchidas(e) >= MissaDe(e).vagas_totais
                 /\ Linha(e, v2) \notin DOMAIN inscricoes) =>
                    (~proc'[1].ret /\ UNCHANGED <<missas, inscricoes>>)
             /\ (/\ mon.fase = "liberada"
                 /\ mon.missa_id = e /\ mon.negado = v2 /\ mon.removido = v1) =>
                    /\ proc'[1].ret
                    /\ Linha(e, v2) \in DOMAIN inscricoes'
                    /\ Linha(e, v1) \notin DOMAIN inscricoes'
                    /\ MissaRealizada(MissaDe(e)) =>
                          \A rk \in Rankings' :
                              /\ \E i \in DOMAIN rk :
                                    rk[i] = <<v2, 1 + PontosDeOutras(v2, e)>>
                              /\ \A i \in DOMAIN rk :
                                    rk[i][1] = v1 => rk[i][2] = PontosDeOutras(v1, e)]_vars

\* for a mass held and full, an enrollment was denied, the coordinator
\* removed the name that held the seat, and the name denied is now enrolled
\* and is the one in the ranking
C15_Witness ==
    /\ mon.fase = "corrigida"
    /\ MissaRealizada(MissaDe(mon.missa_id))
    /\ proc[1] = Retornou("inscrever_acolito", mon.missa_id, mon.negado, TRUE, TRUE)
    /\ VagasPreenchidas(mon.missa_id) = MissaDe(mon.missa_id).vagas_totais
    /\ Rankings = {<< <<mon.negado, 1>> >>}

----------------------------------------------------------------------------
(* Properties of the directory *)

\* C16: with a connection, cadastrar_acolito(nome) returns False and leaves
\* acolitos as it was when nome without its leading and trailing whitespace is
\* in acolitos; otherwise it returns True and acolitos gains exactly that
\* name (" A" and "A" with a tab give "A"); either way the name is in acolitos
\* afterwards, so that the next cadastrar_acolito of a text with the same
\* trimmed name returns False.
C16_CadastroRecusaDuplicata ==
    [][(Retorna(1, "cadastrar_acolito") /\ proc'[1].conn) =>
          LET n == Strip(proc'[1].nome)
          IN  /\ proc'[1].ret <=> n \notin acolitos
              /\ acolitos' = acolitos \cup {n}
              /\ ~proc'[1].ret => acolitos' = acolitos
              /\ proc'[1].nome \in {NomeA, <<32, 65>>, <<65, 9>>} => n = <<65>>
              /\ proc'[1].nome = <<65, 32, 66>> => n = <<65, 32, 66>>
              /\ UNCHANGED <<missas, inscricoes>>]_vars

\* "A" is in the directory and the cadastrar_acolito of " A" has returned
\* False
C16_Witness ==
    /\ proc[1] = Retornou("cadastrar_acolito", 0, <<32, 65>>, FALSE, TRUE)
    /\ NomeA \in acolitos
    /\ <<32, 65>> \notin acolitos

\* C17: every name in acolitos is non-empty and neither begins nor ends with
\* a whitespace character.
C17_NomesNaoVaziosSemEspacos ==
    \A n \in acolitos :
        /\ n # <<>>
        /\ n[1] \notin Espacos
        /\ n[Len(n)] \notin Espacos

\* C18: with a connection, remover_acolito(nome) returns True if and only if
\* nome was in acolitos, returns False otherwise, takes nome out of acolitos
\* and leaves missas and inscricoes as they were: every mass keeps its count of
\* seats taken and every name the points due to it; cadastrar_acolito leaves
\* them as they were too.
C18_RemocaoNaoTocaInscricoes ==
    [][/\ (Retorna(1, "remover_acolito") /\ proc'[1].conn) =>
             /\ proc'[1].ret <=> proc'[1].nome \in acolitos
             /\ acolitos' = acolitos \ {proc'[1].nome}
       /\ (Retorna(1, "remover_acolito") \/ Retorna(1, "cadastrar_acolito")) =>
             /\ UNCHANGED <<missas, inscricoes>>
             /\ \A e \in 1..MaxMissas : VagasPreenchidas(e)' = VagasPreenchidas(e)
             /\ \A n \in Nomes : PontosDevidos(n)' = PontosDevidos(n)]_vars

\* the name A has been removed from the directory while it holds the last
\* seat of a mass held, and A is still in the ranking
C18_Witness ==
    /\ proc[1] = Retornou("remover_acolito", 0, NomeA, TRUE, TRUE)
    /\ NomeA \notin acolitos
    /\ \E e \in MissaIds :
          /\ Linha(e, NomeA) \in DOMAIN inscricoes
          /\ MissaRealizada(MissaDe(e))
          /\ VagasPreenchidas(e) = MissaDe(e).vagas_totais
    /\ \A rk \in Rankings : \E i \in DOMAIN rk : rk[i][1] = NomeA

----------------------------------------------------------------------------
(* Properties of the catalog *)

\* C19: every row of missas has vagas_totais >= 1, cadastrar_missa storing
\* nothing when it is given less than one seat.
C19_VagasPositivas ==
    \A m \in missas : m.vagas_totais >= 1

\* the day number of the date of the row x of a list
DiaDe(x) == CHOOSE o \in {Naive(l)[1] : l \in strptime(dt_str(x))} : TRUE

\* the instant of the date and time of the row x of a list
InstanteDe(x) == CHOOSE t \in {Naive(l) : l \in strptime(dt_str(x))} : TRUE

\* the lists of listar_missas_futuras hold the masses whose date is the date
\* of now in the zone of fuso or later, each once, by date and time ascending
FuturasDeHoje ==
    \A l \in listar_missas_futuras(TRUE) :
        /\ {l[i].id : i \in DOMAIN l} =
              {m.id : m \in {x \in missas : DiaDe(x) >= agora \div (24 * 60)}}
        /\ \A i, j \in DOMAIN l : i # j => l[i].id # l[j].id
        /\ \A i, j \in DOMAIN l : i < j => ~Depois(InstanteDe(l[i]), InstanteDe(l[j]))

\* the lists of listar_todas_missas hold every mass, each once, by date and
\* time descending
TodasEmOrdem ==
    \A l \in listar_todas_missas(TRUE) :
        /\ {l[i].id : i \in DOMAIN l} = MissaIds
        /\ \A i, j \in DOMAIN l : i # j => l[i].id # l[j].id
        /\ \A i, j \in DOMAIN l : i < j => ~Depois(InstanteDe(l[j]), InstanteDe(l[i]))

\* C20: when the handler calls them, listar_missas_futuras returns exactly
\* the masses whose date is today or later, each once, by date and time
\* ascending, and listar_todas_missas returns every mass, each once, by date
\* and time descending.
C20_ListasFiltradasEOrdenadas ==
    Livre(1) =>
        /\ FuturasDeHoje
        /\ TodasEmOrdem
        /\ listar_missas_futuras(TRUE) # {}
        /\ listar_todas_missas(TRUE) # {}

\* the same holds of a process that runs in the zone of fuso, and of
\* listar_todas_missas in any zone
C20_ListasNaZonaDoFuso ==
    Livre(1) =>
        /\ zona = 0 => FuturasDeHoje
        /\ TodasEmOrdem
        /\ listar_missas_futuras(TRUE) # {}
        /\ listar_todas_missas(TRUE) # {}

\* it is 22:00 of 2024-01-01 in the zone of fuso, the process runs in UTC,
\* where it is 2024-01-02, and the mass of 2024-01-01 is not in the list of
\* listar_missas_futuras
C20_MissaDeHojeOmitida ==
    /\ Livre(1)
    /\ agora = AgoraNoite
    /\ zona = 180
    /\ \E m \in missas : m.data = DataMissa
    /\ \A l \in listar_missas_futuras(TRUE) : \A i \in DOMAIN l : l[i].data # DataMissa

----------------------------------------------------------------------------
(* Properties of the annotations of the listings *)

\* the row x of a listing carries the count of the inscricoes of its mass
ContagemAnotada(x) == x.vagas_preenchidas = VagasPreenchidas(x.id)

\* the row x of a listing carries the names of the inscricoes of its mass as
\* listar_inscritos gives them: in ascending order, one entry per row of
\* inscricoes, each entry a stored name
NomesAnotados(x) ==
    /\ "nomes_inscritos" \in DOMAIN x
    /\ x.nomes_inscritos = listar_inscritos(x.id, TRUE)
    /\ Len(x.nomes_inscritos) = x.vagas_preenchidas
    /\ \A i \in DOMAIN x.nomes_inscritos :
          Linha(x.id, x.nomes_inscritos[i]) \in DOMAIN inscricoes
    /\ \A i, j \in DOMAIN x.nomes_inscritos :
          i < j => NomeMenorIgual(x.nomes_inscritos[i], x.nomes_inscritos[j])

\* the rows of listar_missas_futuras carry the count and the names
C21_FuturasAnotadas ==
    Livre(1) =>
        \A l \in listar_missas_futuras(TRUE) : \A i \in DOMAIN l :
            ContagemAnotada(l[i]) /\ NomesAnotados(l[i])

\* the rows of listar_todas_missas carry the count and the names
C21_TodasAnotadas ==
    Livre(1) =>
        \A l \in listar_todas_missas(TRUE) : \A i \in DOMAIN l :
            ContagemAnotada(l[i]) /\ NomesAnotados(l[i])

\* C21: every row of listar_missas_futuras and of listar_todas_missas carries
\* the number of inscricoes of its mass and the list of their names, ascending,
\* one entry per inscricao and each entry a stored name, which is the list
\* listar_inscritos returns for the mass.
C21_ListasAnotadas == C21_FuturasAnotadas /\ C21_TodasAnotadas

\* the counts alone are right in both listings
C21_ContagensAnotadas ==
    Livre(1) =>
        /\ \A l \in listar_missas_futuras(TRUE) : \A i \in DOMAIN l : ContagemAnotada(l[i])
        /\ \A l \in listar_todas_missas(TRUE) : \A i \in DOMAIN l : ContagemAnotada(l[i])

----------------------------------------------------------------------------
(* Properties of the calls made while the store cannot be reached *)

\* the functions that write
Escritas ==
    {"inscrever_acolito", "desinscrever_acolito", "remover_inscricao_admin",
     "cadastrar_missa", "excluir_missa", "cadastrar_acolito", "remover_acolito"}

\* the functions that have an ordinary negative result: the enrollment is
\* denied, the name is a duplicate, nothing was removed.  cadastrar_missa and
\* excluir_missa return True unless a statement fails.
ComNegativo ==
    {"inscrever_acolito", "desinscrever_acolito", "remover_inscricao_admin",
     "cadastrar_acolito", "remover_acolito"}

\* what those functions return then: `return False`, `return sucesso`
ResultadoNegativo == FALSE

\* the step returns a writing call of the handler 1 that had no connection
RetornaSemConexao ==
    /\ proc[1].pc # "done"
    /\ proc'[1].pc = "done"
    /\ proc'[1].op \in Escritas
    /\ ~proc'[1].conn

\* a writing call made while the store cannot be reached changes no table
C22_SemConexaoSemEfeito == [][RetornaSemConexao => TabelasInalteradas]_vars

\* C22: a writing call made while the store cannot be reached changes no table
\* and gives its caller a result that differs from the ordinary negative
\* result of the function.
C22_IndisponibilidadeRelatada ==
    [][RetornaSemConexao =>
          /\ TabelasInalteradas
          /\ ~proc'[1].ret
          /\ proc'[1].op \in ComNegativo => proc'[1].ret # ResultadoNegativo]_vars

----------------------------------------------------------------------------
(* Properties of the aborted calls *)

\* C23: after a call of inscrever_acolito or excluir_missa (or of another of
\* the functions that write) is cut short before its commit, missas and
\* inscricoes (and acolitos) are what they were when the call started; a mass
\* whose excluir_missa was cut short is there with all its inscricoes.
C23_AbortoSemEfeito ==
    mon.fase = "abortada" =>
        /\ missas = mon.missas
        /\ inscricoes = mon.inscricoes
        /\ acolitos = mon.acolitos
        /\ mon.op = "excluir_missa" /\ proc[1].missa_id \in MissaIds =>
              InscricoesDe(proc[1].missa_id) =
                 [r \in {x \in DOMAIN mon.inscricoes : x.missa_id = proc[1].missa_id} |->
                     mon.inscricoes[r]]

\* an excluir_missa of a mass with inscricoes has been cut short after its
\* two DELETEs
C23_Witness ==
    /\ mon.fase = "abortada"
    /\ mon.passo = "commit"
    /\ mon.op = "excluir_missa"
    /\ proc[1].pc = "done"
    /\ VagasPreenchidas(proc[1].missa_id) > 0

----------------------------------------------------------------------------
(* Properties of two withdrawals of the same pair *)

\* both handlers have returned from desinscrever_acolito
AmbosRetornaram ==
    \A p \in Procs : proc[p].pc = "done" /\ proc[p].op = "desinscrever_acolito"

\* C24: when two calls of desinscrever_acolito for the same enrolled pair have
\* both returned, whatever the interleaving, the pair is not enrolled, at
\* least one call has returned True, no other row of inscricoes is gone, and
\* the mass has exactly one inscricao less.
C24_RetiradasConcorrentes ==
    AmbosRetornaram =>
        /\ ContarInscricao(mon.missa_id, mon.nome) = 0
        /\ \E p \in Procs : proc[p].ret
        /\ inscricoes = RemoverLinhas(mon.antes, {Linha(mon.missa_id, mon.nome)})
        /\ VagasPreenchidas(mon.missa_id) =
              BagCardinality([r \in {x \in DOMAIN mon.antes : x.missa_id = mon.missa_id} |->
                                 mon.antes[r]]) - 1

\* both calls have returned, one True and one False, and other rows were enrolled
C24_Witness ==
    /\ AmbosRetornaram
    /\ \E p \in Procs : proc[p].ret
    /\ \E p \in Procs : ~proc[p].ret
    /\ VagasPreenchidas(mon.missa_id) > 0

----------------------------------------------------------------------------
(* Termination of the calls *)

\* the call of p has started and not returned
Iniciada(p) == mon[p] # SemPedido \/ proc[p].pc \notin {"idle", "done"}

\* C25: with a reachable store that runs every statement it is sent, every
\* call of inscrever_acolito, desinscrever_acolito, remover_inscricao_admin
\* and excluir_missa that has started returns, whatever the other handler
\* does on the same mass: a call that waits for a lock gets it when the
\* holder commits, and of two excluir_missa that wait for each other the
\* store aborts one, which returns False.
C25_TodaChamadaRetorna ==
    \A p \in Procs : Iniciada(p) ~> (proc[p].pc = "done")

\* two calls of excluir_missa of the same mass wait for each other: one holds
\* the row of missas and waits for a row of inscricoes the other has deleted,
\* the other waits for the row of missas
C25_Witness ==
    \E p \in Procs : \E q \in Outros(p) :
        /\ EmImpasse(p)
        /\ proc[p].pc = "cascata"
        /\ proc[q].pc = "missa_espera"
        /\ proc[q].missa_id = proc[p].missa_id

----------------------------------------------------------------------------
(* Properties of two registrations of the same name *)

\* both handlers have returned from cadastrar_acolito
AmbosCadastraram ==
    \A p \in Procs : proc[p].pc = "done" /\ proc[p].op = "cadastrar_acolito"

\* C26: when two calls of cadastrar_acolito whose names have the same strip()
\* have both returned, on a directory that did not hold that name, whatever
\* the interleaving, exactly one call has returned True and the directory
\* holds the stripped name once, with the names it held before.
C26_CadastrosConcorrentes ==
    AmbosCadastraram =>
        /\ Strip(proc[1].nome) = Strip(proc[2].nome)
        /\ Strip(proc[1].nome) \notin mon
        /\ Cardinality({p \in Procs : proc[p].ret}) = 1
        /\ Cardinality({p \in Procs : ~proc[p].ret}) = 1
        /\ acolitos = mon \cup {Strip(proc[1].nome)}
        /\ Cardinality(acolitos) = Cardinality(mon) + 1

\* both calls have returned, with texts that differ and the same strip()
C26_Witness ==
    /\ AmbosCadastraram
    /\ proc[1].nome # proc[2].nome
    /\ \E p \in Procs : proc[p].ret
    /\ mon # {}

----------------------------------------------------------------------------
(* Properties of the lists of tela_admin *)

\* how many rows of the list are of the mass e
Vezes(lista, e) == Cardinality({i \in DOMAIN lista : lista[i].id = e})

\* how many times the mass e is in each list of a screen, when the clock
\* stands at now while the screen is drawn; lista is what the call of
\* listar_todas_missas of the list's tab has returned
NasProximas(lista, e) == Vezes(missas_futuras(lista, RelogioParado(Len(lista))), e)
NoHistorico(lista, e) == Vezes(historico(lista, RelogioParado(Len(lista))), e)

\* C27: at any instant, a mass whose date and time parse is once in exactly
\* one of the two lists of tela_admin: in the upcoming list when now is at
\* most six hours after its date and time, in the history list when now is
\* later, which are the masses obter_ranking scores; a mass whose date or
\* time does not parse is in neither list.
C27_ListasDoAdmin ==
    Livre(1) =>
        \A lista1, lista2 \in listar_todas_missas(TRUE) : \A m \in missas :
            LET leitura == strptime(dt_str(m))
            IN  IF leitura = {}
                THEN NasProximas(lista1, m.id) = 0 /\ NoHistorico(lista2, m.id) = 0
                ELSE /\ NasProximas(lista1, m.id) + NoHistorico(lista2, m.id) = 1
                     /\ NasProximas(lista1, m.id) = 1 <=>
                           \A l \in leitura : MinutosDesde(l, agora) <= 360
                     /\ NoHistorico(lista2, m.id) = 1 <=>
                           \A l \in leitura : MinutosDesde(l, agora) > 360
                     /\ NoHistorico(lista2, m.id) = 1 <=> MissaRealizada(m)

\* the same holds of the masses whose date is neither the first nor the
\* last day of the calendar; a mass of one of those two days is in neither
\* list
C27_ListasAteOFimDoCalendario ==
    Livre(1) =>
        \A lista1, lista2 \in listar_todas_missas(TRUE) : \A m \in missas :
            LET leitura == strptime(dt_str(m))
            IN  IF prazo(m) = {}
                THEN NasProximas(lista1, m.id) = 0 /\ NoHistorico(lista2, m.id) = 0
                ELSE /\ NasProximas(lista1, m.id) + NoHistorico(lista2, m.id) = 1
                     /\ NasProximas(lista1, m.id) = 1 <=>
                           \A l \in leitura : MinutosDesde(l, agora) <= 360
                     /\ NoHistorico(lista2, m.id) = 1 <=>
                           \A l \in leitura : MinutosDesde(l, agora) > 360
                     /\ NoHistorico(lista2, m.id) = 1 <=> MissaRealizada(m)

\* whatever the clock reads at each row of each loop, the row is in the
\* upcoming list when its reading is at most six hours after its date and
\* time and in the history list when its reading is later
C27_ListasPorLeitura ==
    Livre(1) =>
        \A lista \in listar_todas_missas(TRUE) :
            \A r1, r2 \in Relogios(Len(lista)) : \A i \in DOMAIN lista :
                /\ Vezes(missas_futuras(lista, r1), lista[i].id) =
                      (IF \E l \in strptime(dt_str(lista[i])) :
                             prazo(lista[i]) # {} /\ MinutosDesde(l, r1[i]) <= 360
                       THEN 1 ELSE 0)
                /\ Vezes(historico(lista, r2), lista[i].id) =
                      (IF \E l \in strptime(dt_str(lista[i])) :
                             prazo(lista[i]) # {} /\ MinutosDesde(l, r2[i]) > 360
                       THEN 1 ELSE 0)

\* the mass of 9999-12-31 10:00, whose texts parse, is in neither list
C27_MissaForaDasListas ==
    /\ Livre(1)
    /\ \E m \in missas :
          /\ strptime(dt_str(m)) = {<<9999, 12, 31, 10, 0>>}
          /\ \A lista1, lista2 \in listar_todas_missas(TRUE) :
                NasProximas(lista1, m.id) = 0 /\ NoHistorico(lista2, m.id) = 0

====
